---- MODULE Spec2Model ----
(***************************************************************************)
(* Schema versioning, entry persistence and the recursive content          *)
(* validator of matter-core.                                               *)
(*                                                                         *)
(* Spec   : the HTTP handlers for schemas and entries running as           *)
(*          concurrent requests against the Mongo collections, with a      *)
(*          search service configured (its goroutines run in SpecSync).    *)
(* SpecV  : SchemaValidator.ValidateEntry applied to bounded sets of       *)
(*          schemas, documents and term stores.                            *)
(* SpecSchemas : the schema handlers alone, next to the rows of a second   *)
(*          key and to entries pinned to stored versions.                  *)
(* SpecSync : the entry handlers and the search-sync goroutines they       *)
(*          start, with and without a configured search service.           *)
(* SpecC  : several ValidateEntry invocations running step by step, one    *)
(*          term lookup at a time.                                         *)
(* SpecOwner : entry Update and Delete requested by the author, another    *)
(*          user and an admin.                                             *)
(* SpecComments : comment Create next to entry Delete.                     *)
(* SpecOAuth : generateState and ValidateState calls against the           *)
(*          oauth_states collection, its TTL index and the clock.          *)
(* SpecRetry : SyncEntryAsync goroutines running syncWithRetry, scheduled  *)
(*          fairly.                                                        *)
(***************************************************************************)
EXTENDS Integers, Sequences, FiniteSets, TLC

VARIABLES
    schemas,    \* MongoRepo.schemas : set of model.Schema rows
    entries,    \* MongoRepo.entries : set of model.Entry rows
    terms,      \* MongoRepo.terms   : set of model.Term rows
    nextOid,    \* next primitive.ObjectID handed out by InsertOne
    pc,         \* per request slot: position inside its handler
    req,        \* per request slot: the bound request (path, body, session)
    loc,        \* per request slot: the handler's local variables
    resp,       \* per request slot: the last response written
    created,    \* per schema key: successful schema Creates since the key was last empty
    started,    \* number of requests accepted so far
    comments,   \* MongoRepo.comments : set of model.Comment rows
    syncSvc,    \* EntryHandler.syncSvc : nil, or the SyncService
    goroutines, \* the goroutines started by the handlers that have not run yet
    indexed,    \* the documents of the search index
    retries,    \* the syncWithRetry invocations made so far, running or returned
    oauthStates,\* MongoRepo.oauthStates : set of model.OAuthState rows
    clock,      \* time.Now()
    validated,  \* the AuthService.ValidateState calls made so far and what they returned
    vFields,    \* SpecV: schema.Fields handed to ValidateEntry
    vData,      \* SpecV: the attribute document handed to ValidateEntry
    vCtx,       \* SpecV: term ids whose lookup fails (store unreachable, deadline)
    vErrs,      \* SpecV: the errors returned by the ValidateEntry calls made so far
    calls       \* SpecC: per caller, its ValidateEntry invocation in progress

bgVars == <<comments, syncSvc, goroutines, indexed>>
svcVars == <<retries, oauthStates, clock, validated>>
sysVars == <<schemas, entries, nextOid, pc, req, loc, resp, created, started, bgVars, svcVars>>
valVars == <<vFields, vData, vCtx, vErrs, calls>>
vars == <<schemas, entries, terms, nextOid, pc, req, loc, resp, created, started,
          comments, syncSvc, goroutines, indexed, retries, oauthStates, clock, validated,
          vFields, vData, vCtx, vErrs, calls>>

\* no retrying sync, no OAuth state, no ValidateState call yet
SvcIdle ==
    /\ retries = << >>
    /\ oauthStates = {}
    /\ clock = 0
    /\ validated = << >>

(***************************************************************************)
(* model.FieldType                                                         *)
(***************************************************************************)
TypeString == "string"
TypeNumber == "number"
TypeBool == "bool"
TypeDate == "date"
TypeObject == "object"
TypeArray == "array"
TypeTaxonomy == "taxonomy"

(***************************************************************************)
(* Dynamically typed document values (Go `any` after JSON decoding).       *)
(* A Go string is a sequence of one-character strings, so that hex         *)
(* parsing of term ids is computed character by character.                 *)
(***************************************************************************)
Nil == [t |-> "nil"]
StringV(s) == [t |-> "string", s |-> s]
Float64V(n) == [t |-> "float64", n |-> n]
IntV(n) == [t |-> "int", n |-> n]
UintV(n) == [t |-> "uint", n |-> n]
BoolV(b) == [t |-> "bool", b |-> b]
TimeV(n) == [t |-> "time.Time", n |-> n]
ArrayV(a) == [t |-> "[]any", a |-> a]
MapV(m) == [t |-> "map[string]any", m |-> m]

EmptyMap == << >>

\* model.FieldSchema; ItemType is a pointer: << >> is nil, <<f>> points to f.
Field(key, type, required) ==
    [Key |-> key, Label |-> key, Type |-> type, Required |-> required,
     Default |-> Nil, Children |-> << >>, ItemType |-> << >>,
     TaxonomyKey |-> "", AllowMultiple |-> FALSE]

(***************************************************************************)
(* primitive.ObjectIDFromHex: 24 hex digits, either case, to 12 bytes.     *)
(***************************************************************************)
ObjectIDHexLen == 24

fromHexChar(c) ==
    CASE c = "0" -> 0 [] c = "1" -> 1 [] c = "2" -> 2 [] c = "3" -> 3
      [] c = "4" -> 4 [] c = "5" -> 5 [] c = "6" -> 6 [] c = "7" -> 7
      [] c = "8" -> 8 [] c = "9" -> 9
      [] c \in {"a", "A"} -> 10 [] c \in {"b", "B"} -> 11
      [] c \in {"c", "C"} -> 12 [] c \in {"d", "D"} -> 13
      [] c \in {"e", "E"} -> 14 [] c \in {"f", "F"} -> 15
      [] OTHER -> -1

ObjectIDFromHex(s) ==
    IF Len(s) # ObjectIDHexLen
    THEN [err |-> "ErrInvalidHex"]
    ELSE IF \E i \in 1..Len(s) : fromHexChar(s[i]) < 0
    THEN [err |-> "InvalidByteError"]
    ELSE [err |-> "nil",
          oid |-> [i \in 1..(ObjectIDHexLen \div 2) |->
                      16 * fromHexChar(s[2 * i - 1]) + fromHexChar(s[2 * i])]]

(***************************************************************************)
(* time.Parse(time.RFC3339, s): the layout is not computed here; the       *)
(* strings below are the ones of the model that the layout accepts.        *)
(***************************************************************************)
DateGood == <<"2", "0", "2", "4", "-", "0", "1", "-", "0", "2", "T",
              "0", "3", ":", "0", "4", ":", "0", "5", "Z">>
DateOnly == <<"2", "0", "2", "4", "-", "0", "1", "-", "0", "2">>

ParseRFC3339(s) ==
    IF s = DateGood THEN [err |-> "nil"] ELSE [err |-> "ParseError"]

(***************************************************************************)
(* MongoRepo.GetTermByID; ctx is the set of term ids for which the call    *)
(* ends with an error other than ErrNoDocuments (store unreachable, the    *)
(* five second deadline of ValidateEntry exceeded).                        *)
(***************************************************************************)
GetTermByID(ctx, id) ==
    IF id \in ctx THEN [err |-> "other"]
    ELSE IF \E t \in terms : t.ID = id
    THEN [err |-> "nil", term |-> CHOOSE t \in terms : t.ID = id]
    ELSE [err |-> "ErrNoDocuments"]

(***************************************************************************)
(* Errors: fmt.Errorf results, one record per format string.               *)
(***************************************************************************)
NoErr == [msg |-> "nil"]
Errorf(msg, key) == [msg |-> msg, key |-> key]
ErrorfTerm(msg, key, termIDStr) == [msg |-> msg, key |-> key, term |-> termIDStr]
ErrorfItem(key, i, err) == [msg |-> "field '%s[%d]': %w", key |-> key, index |-> i, err |-> err]

(***************************************************************************)
(* SchemaValidator                                                         *)
(***************************************************************************)
RECURSIVE validateFieldsFrom(_, _, _, _)
RECURSIVE validateFieldType(_, _, _)
RECURSIVE validateItemsFrom(_, _, _, _)

\* variant: the taxonomy of the term is not compared with the field's
validateTermID_anyTaxonomy(ctx, field, termIDStr) ==
    LET parsed == ObjectIDFromHex(termIDStr) IN
    IF parsed.err # "nil"
    THEN Errorf("field '%s': invalid term ID format", field.Key)
    ELSE LET got == GetTermByID(ctx, parsed.oid) IN
         IF got.err = "ErrNoDocuments"
         THEN ErrorfTerm("field '%s': term '%s' not found", field.Key, termIDStr)
         ELSE IF got.err # "nil"
         THEN Errorf("field '%s': failed to validate term", field.Key)
         ELSE NoErr

validateTermID(ctx, field, termIDStr) ==
    LET parsed == ObjectIDFromHex(termIDStr) IN
    IF parsed.err # "nil"
    THEN Errorf("field '%s': invalid term ID format", field.Key)
    ELSE LET got == GetTermByID(ctx, parsed.oid) IN
         IF got.err = "ErrNoDocuments"
         THEN ErrorfTerm("field '%s': term '%s' not found", field.Key, termIDStr)
         ELSE IF got.err # "nil"
         THEN Errorf("field '%s': failed to validate term", field.Key)
         ELSE IF field.TaxonomyKey # "" /\ got.term.TaxonomyKey # field.TaxonomyKey
         THEN ErrorfTerm("field '%s': term '%s' belongs to wrong taxonomy", field.Key, termIDStr)
         ELSE NoErr

RECURSIVE validateTermIDsFrom(_, _, _, _)

\* variant: every element is looked up and the last offending one is reported
validateTermIDsFrom_lastOffender(ctx, field, arr, i) ==
    IF i > Len(arr) THEN NoErr
    ELSE LET later == validateTermIDsFrom(ctx, field, arr, i + 1) IN
         IF later # NoErr THEN later
         ELSE IF arr[i].t # "string"
         THEN Errorf("field '%s' must contain string term IDs", field.Key)
         ELSE validateTermID(ctx, field, arr[i].s)

validateTermIDsFrom(ctx, field, arr, i) ==
    IF i > Len(arr) THEN NoErr
    ELSE IF arr[i].t # "string"
    THEN Errorf("field '%s' must contain string term IDs", field.Key)
    ELSE LET err == validateTermID(ctx, field, arr[i].s) IN
         IF err # NoErr THEN err
         ELSE validateTermIDsFrom(ctx, field, arr, i + 1)

validateTaxonomyField(ctx, field, value) ==
    IF field.AllowMultiple
    THEN IF value.t # "[]any"
         THEN Errorf("field '%s' must be an array of term IDs", field.Key)
         ELSE validateTermIDsFrom(ctx, field, value.a, 1)
    ELSE IF value.t # "string"
         THEN Errorf("field '%s' must be a term ID string", field.Key)
         ELSE validateTermID(ctx, field, value.s)

\* variant: the failing element is reported by its one-based position
validateItemsFrom_oneBased(ctx, field, arr, i) ==
    IF i > Len(arr) THEN NoErr
    ELSE LET err == validateFieldType(ctx, field.ItemType[1], arr[i]) IN
         IF err # NoErr THEN ErrorfItem(field.Key, i, err)
         ELSE validateItemsFrom(ctx, field, arr, i + 1)

\* the `for i, item := range arr` loop of the array case, from index i (1-based)
validateItemsFrom(ctx, field, arr, i) ==
    IF i > Len(arr) THEN NoErr
    ELSE LET err == validateFieldType(ctx, field.ItemType[1], arr[i]) IN
         IF err # NoErr THEN ErrorfItem(field.Key, i - 1, err)
         ELSE validateItemsFrom(ctx, field, arr, i + 1)

\* variant: a null value of an optional field goes on to the type check
validateFieldType_nullTypeChecked(ctx, field, value) ==
    IF value.t = "nil"
    THEN IF field.Required
         THEN Errorf("field '%s' cannot be null", field.Key)
         ELSE IF field.Type = TypeObject
         THEN Errorf("field '%s' must be an object", field.Key)
         ELSE IF field.Type = TypeArray
         THEN Errorf("field '%s' must be an array", field.Key)
         ELSE IF field.Type = TypeTaxonomy
         THEN validateTaxonomyField(ctx, field, value)
         ELSE NoErr
    ELSE CASE field.Type = TypeString ->
                IF value.t # "string"
                THEN Errorf("field '%s' must be a string", field.Key)
                ELSE NoErr
           [] field.Type = TypeNumber ->
                IF value.t \notin {"float64", "float32", "int", "int32", "int64"}
                THEN Errorf("field '%s' must be a number", field.Key)
                ELSE NoErr
           [] field.Type = TypeBool ->
                IF value.t # "bool"
                THEN Errorf("field '%s' must be a boolean", field.Key)
                ELSE NoErr
           [] field.Type = TypeDate ->
                IF value.t = "string"
                THEN IF ParseRFC3339(value.s).err # "nil"
                     THEN Errorf("field '%s' must be a valid date (RFC3339)", field.Key)
                     ELSE NoErr
                ELSE IF value.t = "time.Time" THEN NoErr
                ELSE Errorf("field '%s' must be a date", field.Key)
           [] field.Type = TypeObject ->
                IF value.t # "map[string]any"
                THEN Errorf("field '%s' must be an object", field.Key)
                ELSE IF Len(field.Children) > 0
                THEN validateFieldsFrom(ctx, field.Children, value.m, 1)
                ELSE NoErr
           [] field.Type = TypeArray ->
                IF value.t # "[]any"
                THEN Errorf("field '%s' must be an array", field.Key)
                ELSE IF field.ItemType # << >>
                THEN validateItemsFrom(ctx, field, value.a, 1)
                ELSE NoErr
           [] field.Type = TypeTaxonomy ->
                validateTaxonomyField(ctx, field, value)
           [] OTHER -> NoErr

\* variant: the children of an object field are not validated
validateFieldType_objectUnchecked(ctx, field, value) ==
    IF value.t = "nil"
    THEN IF field.Required
         THEN Errorf("field '%s' cannot be null", field.Key)
         ELSE NoErr
    ELSE CASE field.Type = TypeString ->
                IF value.t # "string"
                THEN Errorf("field '%s' must be a string", field.Key)
                ELSE NoErr
           [] field.Type = TypeNumber ->
                IF value.t \notin {"float64", "float32", "int", "int32", "int64"}
                THEN Errorf("field '%s' must be a number", field.Key)
                ELSE NoErr
           [] field.Type = TypeBool ->
                IF value.t # "bool"
                THEN Errorf("field '%s' must be a boolean", field.Key)
                ELSE NoErr
           [] field.Type = TypeDate ->
                IF value.t = "string"
                THEN IF ParseRFC3339(value.s).err # "nil"
                     THEN Errorf("field '%s' must be a valid date (RFC3339)", field.Key)
                     ELSE NoErr
                ELSE IF value.t = "time.Time" THEN NoErr
                ELSE Errorf("field '%s' must be a date", field.Key)
           [] field.Type = TypeObject ->
                IF value.t # "map[string]any"
                THEN Errorf("field '%s' must be an object", field.Key)
                ELSE NoErr
           [] field.Type = TypeArray ->
                IF value.t # "[]any"
                THEN Errorf("field '%s' must be an array", field.Key)
                ELSE IF field.ItemType # << >>
                THEN validateItemsFrom(ctx, field, value.a, 1)
                ELSE NoErr
           [] field.Type = TypeTaxonomy ->
                validateTaxonomyField(ctx, field, value)
           [] OTHER -> NoErr

\* variant: the children are validated for a field of an unrecognised type too
validateFieldType_childrenAnywhere(ctx, field, value) ==
    IF value.t = "nil"
    THEN IF field.Required
         THEN Errorf("field '%s' cannot be null", field.Key)
         ELSE NoErr
    ELSE CASE field.Type = TypeString ->
                IF value.t # "string"
                THEN Errorf("field '%s' must be a string", field.Key)
                ELSE NoErr
           [] field.Type = TypeNumber ->
                IF value.t \notin {"float64", "float32", "int", "int32", "int64"}
                THEN Errorf("field '%s' must be a number", field.Key)
                ELSE NoErr
           [] field.Type = TypeBool ->
                IF value.t # "bool"
                THEN Errorf("field '%s' must be a boolean", field.Key)
                ELSE NoErr
           [] field.Type = TypeDate ->
                IF value.t = "string"
                THEN IF ParseRFC3339(value.s).err # "nil"
                     THEN Errorf("field '%s' must be a valid date (RFC3339)", field.Key)
                     ELSE NoErr
                ELSE IF value.t = "time.Time" THEN NoErr
                ELSE Errorf("field '%s' must be a date", field.Key)
           [] field.Type = TypeObject ->
                IF value.t # "map[string]any"
                THEN Errorf("field '%s' must be an object", field.Key)
                ELSE IF Len(field.Children) > 0
                THEN validateFieldsFrom(ctx, field.Children, value.m, 1)
                ELSE NoErr
           [] field.Type = TypeArray ->
                IF value.t # "[]any"
                THEN Errorf("field '%s' must be an array", field.Key)
                ELSE IF field.ItemType # << >>
                THEN validateItemsFrom(ctx, field, value.a, 1)
                ELSE NoErr
           [] field.Type = TypeTaxonomy ->
                validateTaxonomyField(ctx, field, value)
           [] OTHER ->
                IF value.t = "map[string]any" /\ Len(field.Children) > 0
                THEN validateFieldsFrom(ctx, field.Children, value.m, 1)
                ELSE NoErr

\* variant: a field of an unrecognised type is checked as a string field
validateFieldType_unknownAsString(ctx, field, value) ==
    IF value.t = "nil"
    THEN IF field.Required
         THEN Errorf("field '%s' cannot be null", field.Key)
         ELSE NoErr
    ELSE CASE field.Type = TypeString ->
                IF value.t # "string"
                THEN Errorf("field '%s' must be a string", field.Key)
                ELSE NoErr
           [] field.Type = TypeNumber ->
                IF value.t \notin {"float64", "float32", "int", "int32", "int64"}
                THEN Errorf("field '%s' must be a number", field.Key)
                ELSE NoErr
           [] field.Type = TypeBool ->
                IF value.t # "bool"
                THEN Errorf("field '%s' must be a boolean", field.Key)
                ELSE NoErr
           [] field.Type = TypeDate ->
                IF value.t = "string"
                THEN IF ParseRFC3339(value.s).err # "nil"
                     THEN Errorf("field '%s' must be a valid date (RFC3339)", field.Key)
                     ELSE NoErr
                ELSE IF value.t = "time.Time" THEN NoErr
                ELSE Errorf("field '%s' must be a date", field.Key)
           [] field.Type = TypeObject ->
                IF value.t # "map[string]any"
                THEN Errorf("field '%s' must be an object", field.Key)
                ELSE IF Len(field.Children) > 0
                THEN validateFieldsFrom(ctx, field.Children, value.m, 1)
                ELSE NoErr
           [] field.Type = TypeArray ->
                IF value.t # "[]any"
                THEN Errorf("field '%s' must be an array", field.Key)
                ELSE IF field.ItemType # << >>
                THEN validateItemsFrom(ctx, field, value.a, 1)
                ELSE NoErr
           [] field.Type = TypeTaxonomy ->
                validateTaxonomyField(ctx, field, value)
           [] OTHER ->
                IF value.t # "string"
                THEN Errorf("field '%s' must be a string", field.Key)
                ELSE NoErr

validateFieldType(ctx, field, value) ==
    IF value.t = "nil"
    THEN IF field.Required
         THEN Errorf("field '%s' cannot be null", field.Key)
         ELSE NoErr
    ELSE CASE field.Type = TypeString ->
                IF value.t # "string"
                THEN Errorf("field '%s' must be a string", field.Key)
                ELSE NoErr
           [] field.Type = TypeNumber ->
                IF value.t \notin {"float64", "float32", "int", "int32", "int64"}
                THEN Errorf("field '%s' must be a number", field.Key)
                ELSE NoErr
           [] field.Type = TypeBool ->
                IF value.t # "bool"
                THEN Errorf("field '%s' must be a boolean", field.Key)
                ELSE NoErr
           [] field.Type = TypeDate ->
                IF value.t = "string"
                THEN IF ParseRFC3339(value.s).err # "nil"
                     THEN Errorf("field '%s' must be a valid date (RFC3339)", field.Key)
                     ELSE NoErr
                ELSE IF value.t = "time.Time" THEN NoErr
                ELSE Errorf("field '%s' must be a date", field.Key)
           [] field.Type = TypeObject ->
                IF value.t # "map[string]any"
                THEN Errorf("field '%s' must be an object", field.Key)
                ELSE IF Len(field.Children) > 0
                THEN validateFieldsFrom(ctx, field.Children, value.m, 1)
                ELSE NoErr
           [] field.Type = TypeArray ->
                IF value.t # "[]any"
                THEN Errorf("field '%s' must be an array", field.Key)
                ELSE IF field.ItemType # << >>
                THEN validateItemsFrom(ctx, field, value.a, 1)
                ELSE NoErr
           [] field.Type = TypeTaxonomy ->
                validateTaxonomyField(ctx, field, value)
           [] OTHER -> NoErr

\* variant: the loop goes on after a violation and reports the last one
validateFieldsFrom_lastError(ctx, fields, data, i) ==
    IF i > Len(fields) THEN NoErr
    ELSE LET field == fields[i]
             exists == field.Key \in DOMAIN data
             here == IF field.Required /\ ~exists
                     THEN Errorf("required field '%s' is missing", field.Key)
                     ELSE IF ~exists THEN NoErr
                     ELSE validateFieldType(ctx, field, data[field.Key])
             later == validateFieldsFrom(ctx, fields, data, i + 1)
         IN  IF later # NoErr THEN later ELSE here

\* variant: an absent optional field is checked as if it were null-valued and required
validateFieldsFrom_checksAbsent(ctx, fields, data, i) ==
    IF i > Len(fields) THEN NoErr
    ELSE LET field == fields[i]
             exists == field.Key \in DOMAIN data
         IN  IF field.Required /\ ~exists
             THEN Errorf("required field '%s' is missing", field.Key)
             ELSE IF ~exists
             THEN IF field.Type = TypeObject /\ Len(field.Children) > 0
                  THEN validateFieldsFrom(ctx, field.Children, EmptyMap, 1)
                  ELSE validateFieldsFrom(ctx, fields, data, i + 1)
             ELSE LET err == validateFieldType(ctx, field, data[field.Key]) IN
                  IF err # NoErr THEN err
                  ELSE validateFieldsFrom(ctx, fields, data, i + 1)

\* variant: a key of the document that no field declares is rejected
validateFieldsFrom_rejectsUndeclared(ctx, fields, data, i) ==
    IF \E k \in DOMAIN data : \A n \in 1..Len(fields) : fields[n].Key # k
    THEN Errorf("field '%s' is not declared",
                CHOOSE k \in DOMAIN data : \A n \in 1..Len(fields) : fields[n].Key # k)
    ELSE
    IF i > Len(fields) THEN NoErr
    ELSE LET field == fields[i]
             exists == field.Key \in DOMAIN data
         IN  IF field.Required /\ ~exists
             THEN Errorf("required field '%s' is missing", field.Key)
             ELSE IF ~exists
             THEN validateFieldsFrom(ctx, fields, data, i + 1)
             ELSE LET err == validateFieldType(ctx, field, data[field.Key]) IN
                  IF err # NoErr THEN err
                  ELSE validateFieldsFrom(ctx, fields, data, i + 1)

\* the `for _, field := range fields` loop of validateFields, from index i
validateFieldsFrom(ctx, fields, data, i) ==
    IF i > Len(fields) THEN NoErr
    ELSE LET field == fields[i]
             exists == field.Key \in DOMAIN data
         IN  IF field.Required /\ ~exists
             THEN Errorf("required field '%s' is missing", field.Key)
             ELSE IF ~exists
             THEN validateFieldsFrom(ctx, fields, data, i + 1)
             ELSE LET err == validateFieldType(ctx, field, data[field.Key]) IN
                  IF err # NoErr THEN err
                  ELSE validateFieldsFrom(ctx, fields, data, i + 1)

validateFields(ctx, fields, data) == validateFieldsFrom(ctx, fields, data, 1)

ValidateEntry(ctx, schemaFields, data) == validateFields(ctx, schemaFields, data)

(***************************************************************************)
(* Bounds and input sets of the handler model                              *)
(***************************************************************************)
NumSlots == 2
MaxRequests == 3

Slots == 1..NumSlots
Keys == {"post"}
Names == {"Post"}

\* a pointer or nil-able map: << >> is nil, <<x>> holds x
NilPtr == << >>
Ptr(x) == <<x>>

HexOf(c) == [i \in 1..ObjectIDHexLen |-> IF i = ObjectIDHexLen THEN c ELSE "0"]
T1Hex == HexOf("1")
T2Hex == HexOf("2")
T3Hex == HexOf("3")
T1UpperHex == HexOf("A")
T1LowerHex == HexOf("a")
BadHex == HexOf("g")
OidOf(hex) == ObjectIDFromHex(hex).oid

\* model.Term rows of the seeded term store
Term(hex, taxonomyKey) == [ID |-> OidOf(hex), TaxonomyKey |-> taxonomyKey]
SeedTerms == {Term(T1Hex, "people"), Term(T2Hex, "places")}

FTitle == Field("title", TypeString, TRUE)
FAuthor == [Field("author", TypeTaxonomy, TRUE) EXCEPT !.TaxonomyKey = "people"]
FieldLists == {<<FTitle>>, <<FTitle, FAuthor>>}

DTitle == [title |-> StringV(<<"x">>)]
DFull == [title |-> StringV(<<"x">>), author |-> StringV(T1Hex)]
AttrInputs == {NilPtr, Ptr(DTitle), Ptr(DFull)}

\* sessions set by AuthMiddleware: the users who create entries, and the users
\* who ask to update them (the author, another user, an admin)
AuthorSessions == {[user_id |-> "u1", user_role |-> "user"]}
Sessions == {[user_id |-> "u1", user_role |-> "user"],
             [user_id |-> "u2", user_role |-> "user"],
             [user_id |-> "u2", user_role |-> "admin"]}
UpdateTexts == {[Title |-> "", Body |-> ""], [Title |-> "t2", Body |-> "b2"]}
CtxFaults == {{}, {OidOf(T1Hex)}}

\* a response: the pkg/utils function called and its message or data, kept with
\* the request it answers
Response(status, body) == [status |-> status, body |-> body]
NoResp == [status |-> "none", body |-> "", req |-> [op |-> "none"]]
NoLoc == [version |-> 0, schema |-> NilPtr, entry |-> NilPtr, comment |-> NilPtr]

(***************************************************************************)
(* MongoRepo reads                                                         *)
(***************************************************************************)
\* FindOne({key}) sorted by version descending: the rows it may return
\* (none: ErrNoDocuments; several rows of the same version: any of them).
GetLatestSchema(key) ==
    {s \in schemas : /\ s.Key = key
                     /\ \A t \in schemas : t.Key = key => t.Version <= s.Version}

GetSchemaByID(id) == {s \in schemas : s.ID = id}

GetEntryByID(id) == {e \in entries : e.ID = id}

(***************************************************************************)
(* Responses (pkg/utils) and request bookkeeping                           *)
(***************************************************************************)
NoReq == [op |-> "none"]

\* a request is routed to a free slot (the lowest one: slots are interchangeable)
Accept(p) ==
    /\ pc[p] = "idle"
    /\ \A q \in Slots : q < p => pc[q] # "idle"
    /\ started < MaxRequests
    /\ started' = started + 1

\* the handler writes its response and returns: its request and locals are gone
Respond(p, r, out) ==
    /\ resp' = [resp EXCEPT ![p] = [status |-> out.status, body |-> out.body, req |-> r]]
    /\ pc' = [pc EXCEPT ![p] = "idle"]
    /\ req' = [req EXCEPT ![p] = NoReq]
    /\ loc' = [loc EXCEPT ![p] = NoLoc]

\* the handler of request r moves on to its next repository call with locals l
Goto(p, label, r, l) ==
    /\ pc' = [pc EXCEPT ![p] = label]
    /\ req' = [req EXCEPT ![p] = r]
    /\ loc' = [loc EXCEPT ![p] = l]
    /\ resp' = [resp EXCEPT ![p] = NoResp]

(***************************************************************************)
(* Goroutines started by the entry handlers                                *)
(***************************************************************************)
\* `go func() { _ = h.syncSvc.SyncEntry(entry) }()` and
\* `go func() { _ = h.syncSvc.DeleteEntry(id) }()`: the closure and what it captured
SyncEntryGoroutine(entry) == [op |-> "SyncEntry", entry |-> entry]
DeleteEntryGoroutine(id) == [op |-> "DeleteEntry", id |-> id]

\* A panic that no deferred function recovers ends the process: the handlers
\* in progress never answer, nothing is accepted any more.
Panic ==
    /\ pc' = [p \in Slots |-> "exited"]
    /\ req' = [p \in Slots |-> NoReq]
    /\ loc' = [p \in Slots |-> NoLoc]
    /\ goroutines' = {}
    /\ resp' = resp

\* The handler starts goroutine g and then writes its response. With a nil
\* syncSvc the goroutine dereferences nil (s.meiliRepo) as soon as it runs,
\* which may be before the response is written.
GoThenRespond(p, g, out) ==
    \/ /\ goroutines' = goroutines \cup {g}
       /\ Respond(p, req[p], out)
    \/ /\ syncSvc = NilPtr
       /\ Panic

\* SyncService.entryToSearchDoc; the texts derived from the body and the
\* attributes are left out of the document
entryToSearchDoc(entry) ==
    [ID |-> entry.ID, Title |-> entry.Title, SchemaKey |-> entry.SchemaKey]

\* MeiliRepo.IndexDocument: AddDocuments with primary key "id"
IndexDocument(doc) == {d \in indexed : d.ID # doc.ID} \cup {doc}

\* MeiliRepo.DeleteDocument
DeleteDocument(id) == {d \in indexed : d.ID # id}

\* the body of a started goroutine: SyncService.SyncEntry, its error discarded
GoSyncEntry(g) ==
    /\ g \in goroutines
    /\ g.op = "SyncEntry"
    /\ \/ /\ syncSvc = NilPtr
          /\ Panic
          /\ indexed' = indexed
       \/ /\ syncSvc # NilPtr
          /\ goroutines' = goroutines \ {g}
          /\ indexed' \in {IndexDocument(entryToSearchDoc(g.entry)), indexed}
          /\ UNCHANGED <<pc, req, loc, resp>>
    /\ UNCHANGED <<schemas, entries, terms, nextOid, created, started, comments, syncSvc>>
    /\ UNCHANGED valVars
    /\ UNCHANGED svcVars

\* the body of a started goroutine: SyncService.DeleteEntry, its error discarded
GoDeleteEntry(g) ==
    /\ g \in goroutines
    /\ g.op = "DeleteEntry"
    /\ \/ /\ syncSvc = NilPtr
          /\ Panic
          /\ indexed' = indexed
       \/ /\ syncSvc # NilPtr
          /\ goroutines' = goroutines \ {g}
          /\ indexed' \in {DeleteDocument(g.id), indexed}
          /\ UNCHANGED <<pc, req, loc, resp>>
    /\ UNCHANGED <<schemas, entries, terms, nextOid, created, started, comments, syncSvc>>
    /\ UNCHANGED valVars
    /\ UNCHANGED svcVars

(***************************************************************************)
(* SchemaHandler.Create                                                    *)
(***************************************************************************)
SchemaCreateRequests ==
    {[op |-> "SchemaHandler.Create", Key |-> key, Name |-> name, Fields |-> fields] :
        key \in Keys, name \in Names, fields \in FieldLists}

\* version := 1, or existing.Version + 1
NextVersion(existing) == IF existing = NilPtr THEN 1 ELSE existing[1].Version + 1

\* bind the request, GetLatestSchema, compute the version
SchemaCreateRead(p) ==
    /\ Accept(p)
    /\ \E r \in SchemaCreateRequests :
        \/ Respond(p, r, Response("InternalError", "failed to check existing schema"))
        \/ \E existing \in IF GetLatestSchema(r.Key) = {}
                           THEN {NilPtr}
                           ELSE {Ptr(s) : s \in GetLatestSchema(r.Key)} :
              Goto(p, "sc_CreateSchema", r, [NoLoc EXCEPT !.version = NextVersion(existing)])
    /\ UNCHANGED <<schemas, entries, terms, nextOid, created>>
    /\ UNCHANGED valVars
    /\ UNCHANGED svcVars
    /\ UNCHANGED bgVars

\* the row InsertOne stores for the handler's schema value
NewSchemaRow(id, r, version) ==
    [ID |-> id, Key |-> r.Key, Version |-> version, Name |-> r.Name, Fields |-> r.Fields]

\* MongoRepo.CreateSchema: InsertOne into schemas, whose only indexes are the
\* automatic unique _id and the non-unique {key, version}
CreateSchema(row) == schemas \cup {row}

SchemaCreateInsert(p) ==
    /\ pc[p] = "sc_CreateSchema"
    /\ \/ /\ Respond(p, req[p], Response("InternalError", "failed to create schema"))
          /\ UNCHANGED <<schemas, nextOid, created>>
       \/ LET row == NewSchemaRow(nextOid, req[p], loc[p].version) IN
          /\ schemas' = CreateSchema(row)
          /\ nextOid' = nextOid + 1
          /\ created' = [created EXCEPT ![row.Key] = @ + 1]
          /\ Respond(p, req[p], Response("Created", row))
    /\ UNCHANGED <<entries, terms, started>>
    /\ UNCHANGED valVars
    /\ UNCHANGED svcVars
    /\ UNCHANGED bgVars

(***************************************************************************)
(* SchemaHandler.Delete                                                    *)
(***************************************************************************)
SchemaDeleteRequests == {[op |-> "SchemaHandler.Delete", Key |-> key] : key \in Keys}

\* bind the request, check that the key has a schema
SchemaDeleteCheck(p) ==
    /\ Accept(p)
    /\ \E r \in SchemaDeleteRequests :
        \/ Respond(p, r, Response("InternalError", "failed to get schema"))
        \/ /\ GetLatestSchema(r.Key) = {}
           /\ Respond(p, r, Response("NotFound", "schema not found"))
        \/ /\ GetLatestSchema(r.Key) # {}
           /\ Goto(p, "sd_DeleteSchemasByKey", r, NoLoc)
    /\ UNCHANGED <<schemas, entries, terms, nextOid, created>>
    /\ UNCHANGED valVars
    /\ UNCHANGED svcVars
    /\ UNCHANGED bgVars

\* variant: only the rows of the greatest version are deleted
DeleteSchemasByKey_latestOnly(key) == schemas \ GetLatestSchema(key)

\* MongoRepo.DeleteSchemasByKey: DeleteMany({key})
DeleteSchemasByKey(key) == {s \in schemas : s.Key # key}

SchemaDeleteRun(p) ==
    /\ pc[p] = "sd_DeleteSchemasByKey"
    /\ \/ /\ Respond(p, req[p], Response("InternalError", "failed to delete schema"))
          /\ UNCHANGED <<schemas, created>>
       \/ /\ schemas' = DeleteSchemasByKey(req[p].Key)
          /\ created' = [created EXCEPT ![req[p].Key] = 0]
          /\ Respond(p, req[p], Response("Success", "nil"))
    /\ UNCHANGED <<entries, terms, nextOid, started>>
    /\ UNCHANGED valVars
    /\ UNCHANGED svcVars
    /\ UNCHANGED bgVars

(***************************************************************************)
(* EntryHandler.Create                                                     *)
(***************************************************************************)
EntryCreateRequests ==
    {[op |-> "EntryHandler.Create", SchemaKey |-> key, Title |-> "t1", Body |-> "b1",
      Attributes |-> attrs, session |-> session] :
        key \in Keys, attrs \in AttrInputs, session \in AuthorSessions}

\* `if req.Attributes == nil { req.Attributes = make(map[string]interface{}) }`
AttributesOrEmpty(attrs) == IF attrs = NilPtr THEN EmptyMap ELSE attrs[1]

\* variant: any stored version of the key, not only the greatest
CreateSchemaFor_anyVersion(key) == {s \in schemas : s.Key = key}

\* the schema rows entry Create may validate against and stamp the entry with
CreateSchemaFor(key) == GetLatestSchema(key)

\* bind the request, GetLatestSchema, default the attributes
EntryCreateRead(p) ==
    /\ Accept(p)
    /\ \E r \in EntryCreateRequests :
        \/ Respond(p, r, Response("InternalError", "failed to get schema"))
        \/ /\ CreateSchemaFor(r.SchemaKey) = {}
           /\ Respond(p, r, Response("NotFound", "schema not found"))
        \/ \E schema \in CreateSchemaFor(r.SchemaKey) :
              Goto(p, "ec_ValidateEntry",
                   [r EXCEPT !.Attributes = Ptr(AttributesOrEmpty(@))],
                   [NoLoc EXCEPT !.schema = Ptr(schema)])
    /\ UNCHANGED <<schemas, entries, terms, nextOid, created>>
    /\ UNCHANGED valVars
    /\ UNCHANGED svcVars
    /\ UNCHANGED bgVars

\* the response the entry handlers write for a ValidateEntry error
ValidationFailed(err) == Response("BadRequest", err)

EntryCreateValidate(p) ==
    /\ pc[p] = "ec_ValidateEntry"
    /\ \E ctx \in CtxFaults :
         LET err == ValidateEntry(ctx, loc[p].schema[1].Fields, req[p].Attributes[1]) IN
         IF err # NoErr
         THEN Respond(p, req[p], ValidationFailed(err))
         ELSE Goto(p, "ec_CreateEntry", req[p], loc[p])
    /\ UNCHANGED <<schemas, entries, terms, nextOid, created, started>>
    /\ UNCHANGED valVars
    /\ UNCHANGED svcVars
    /\ UNCHANGED bgVars

\* the model.Entry literal built by EntryHandler.Create
NewEntry(id, schema, r) ==
    [ID |-> id, SchemaID |-> schema.ID, SchemaKey |-> schema.Key,
     SchemaVersion |-> schema.Version, AuthorID |-> r.session.user_id,
     Title |-> r.Title, Body |-> r.Body, Attributes |-> r.Attributes[1]]

\* MongoRepo.CreateEntry: InsertOne
CreateEntry(entry) == entries \cup {entry}

EntryCreateInsert(p) ==
    /\ pc[p] = "ec_CreateEntry"
    /\ \/ /\ Respond(p, req[p], Response("InternalError", "failed to create entry"))
          /\ UNCHANGED <<entries, nextOid, goroutines>>
       \/ LET entry == NewEntry(nextOid, loc[p].schema[1], req[p]) IN
          /\ entries' = CreateEntry(entry)
          /\ nextOid' = nextOid + 1
          /\ GoThenRespond(p, SyncEntryGoroutine(entry), Response("Created", entry))
    /\ UNCHANGED <<schemas, terms, created, started>>
    /\ UNCHANGED <<comments, syncSvc, indexed>>
    /\ UNCHANGED valVars
    /\ UNCHANGED svcVars

(***************************************************************************)
(* EntryHandler.Update                                                     *)
(***************************************************************************)
\* ids of the entries inserted so far (stored or not)
EntryIDs == {e.ID : e \in entries}

UpdateRequest(id, text, attrs, session) ==
    [op |-> "EntryHandler.Update", id |-> id, Title |-> text.Title, Body |-> text.Body,
     Attributes |-> attrs, session |-> session]

\* every body from the author; one body from each other session
EntryUpdateRequests ==
    {UpdateRequest(id, text, attrs, session) :
        id \in EntryIDs, text \in UpdateTexts, attrs \in AttrInputs, session \in AuthorSessions}
    \cup {UpdateRequest(id, [Title |-> "t2", Body |-> "b2"], Ptr(DTitle), session) :
        id \in EntryIDs, session \in Sessions \ AuthorSessions}

\* variant: any signed-in user passes the check
NotAuthorized_roleOnly(entry, session) ==
    session.user_role \notin {"admin", "user"}

\* `entry.AuthorID != userID && userRole != "admin"`
NotAuthorized(entry, session) ==
    entry.AuthorID # session.user_id /\ session.user_role # "admin"

\* the title/body assignments made on the handler's copy of the entry
WithTexts(entry, r) ==
    [entry EXCEPT !.Title = IF r.Title # "" THEN r.Title ELSE @,
                  !.Body = IF r.Body # "" THEN r.Body ELSE @]

\* bind the request, GetEntryByID, check ownership, apply title and body
EntryUpdateRead(p) ==
    /\ Accept(p)
    /\ \E r \in EntryUpdateRequests :
        \/ Respond(p, r, Response("InternalError", "failed to get entry"))
        \/ /\ GetEntryByID(r.id) = {}
           /\ Respond(p, r, Response("NotFound", "entry not found"))
        \/ \E entry \in GetEntryByID(r.id) :
            IF NotAuthorized(entry, r.session)
            THEN Respond(p, r, Response("Forbidden", "not authorized to update this entry"))
            ELSE Goto(p, IF r.Attributes # NilPtr
                         THEN "eu_GetSchemaByID" ELSE "eu_UpdateEntry",
                      r, [NoLoc EXCEPT !.entry = Ptr(WithTexts(entry, r))])
    /\ UNCHANGED <<schemas, entries, terms, nextOid, created>>
    /\ UNCHANGED valVars
    /\ UNCHANGED svcVars
    /\ UNCHANGED bgVars

\* variant: the latest version of the entry's key, not the version it is pinned to
UpdateSchemaFor_latest(entry) == GetLatestSchema(entry.SchemaKey)

\* the schema rows entry Update may validate the new attributes against
UpdateSchemaFor(entry) == GetSchemaByID(entry.SchemaID)

EntryUpdateSchema(p) ==
    /\ pc[p] = "eu_GetSchemaByID"
    /\ \/ Respond(p, req[p], Response("InternalError", "failed to get schema"))
       \/ \E schema \in UpdateSchemaFor(loc[p].entry[1]) :
             Goto(p, "eu_ValidateEntry", req[p], [loc[p] EXCEPT !.schema = Ptr(schema)])
    /\ UNCHANGED <<schemas, entries, terms, nextOid, created, started>>
    /\ UNCHANGED valVars
    /\ UNCHANGED svcVars
    /\ UNCHANGED bgVars

\* variant: the title and body already applied are saved although the
\* attributes were rejected
EntryUpdateValidate_savesOnReject(p) ==
    /\ pc[p] = "eu_ValidateEntry"
    /\ \E ctx \in CtxFaults :
         LET err == ValidateEntry(ctx, loc[p].schema[1].Fields, req[p].Attributes[1]) IN
         IF err # NoErr
         THEN /\ Respond(p, req[p], ValidationFailed(err))
              /\ entries' = {IF e.ID = loc[p].entry[1].ID THEN loc[p].entry[1] ELSE e : e \in entries}
         ELSE /\ Goto(p, "eu_UpdateEntry", req[p],
                      [loc[p] EXCEPT !.entry = Ptr([@[1] EXCEPT !.Attributes = req[p].Attributes[1]])])
              /\ entries' = entries
    /\ UNCHANGED <<schemas, terms, nextOid, created, started>>
    /\ UNCHANGED valVars
    /\ UNCHANGED svcVars
    /\ UNCHANGED bgVars

EntryUpdateValidate(p) ==
    /\ pc[p] = "eu_ValidateEntry"
    /\ \E ctx \in CtxFaults :
         LET err == ValidateEntry(ctx, loc[p].schema[1].Fields, req[p].Attributes[1]) IN
         IF err # NoErr
         THEN Respond(p, req[p], ValidationFailed(err))
         ELSE Goto(p, "eu_UpdateEntry", req[p],
                   [loc[p] EXCEPT !.entry = Ptr([@[1] EXCEPT !.Attributes = req[p].Attributes[1]])])
    /\ UNCHANGED <<schemas, entries, terms, nextOid, created, started>>
    /\ UNCHANGED valVars
    /\ UNCHANGED svcVars
    /\ UNCHANGED bgVars

\* variant: the replacement is re-stamped with the latest version of its key
UpdateEntry_restamped(entry) ==
    {IF e.ID = entry.ID
     THEN IF GetLatestSchema(entry.SchemaKey) = {}
          THEN entry
          ELSE LET s == CHOOSE s \in GetLatestSchema(entry.SchemaKey) : TRUE
               IN  [entry EXCEPT !.SchemaID = s.ID, !.SchemaVersion = s.Version]
     ELSE e : e \in entries}

\* MongoRepo.UpdateEntry: ReplaceOne({_id: entry.ID}, entry), no upsert
UpdateEntry(entry) == {IF e.ID = entry.ID THEN entry ELSE e : e \in entries}

EntryUpdateWrite(p) ==
    /\ pc[p] = "eu_UpdateEntry"
    /\ \/ /\ Respond(p, req[p], Response("InternalError", "failed to update entry"))
          /\ UNCHANGED <<entries, goroutines>>
       \/ /\ entries' = UpdateEntry(loc[p].entry[1])
          /\ GoThenRespond(p, SyncEntryGoroutine(loc[p].entry[1]),
                           Response("Success", loc[p].entry[1]))
    /\ UNCHANGED <<schemas, terms, nextOid, created, started>>
    /\ UNCHANGED <<comments, syncSvc, indexed>>
    /\ UNCHANGED valVars
    /\ UNCHANGED svcVars

(***************************************************************************)
(* EntryHandler.Delete                                                     *)
(***************************************************************************)
EntryDeleteRequests ==
    {[op |-> "EntryHandler.Delete", id |-> id, session |-> session] :
        id \in EntryIDs, session \in Sessions}

\* bind the request, GetEntryByID, check ownership
EntryDeleteRead(p) ==
    /\ Accept(p)
    /\ \E r \in EntryDeleteRequests :
        \/ Respond(p, r, Response("InternalError", "failed to get entry"))
        \/ /\ GetEntryByID(r.id) = {}
           /\ Respond(p, r, Response("NotFound", "entry not found"))
        \/ \E entry \in GetEntryByID(r.id) :
            IF NotAuthorized(entry, r.session)
            THEN Respond(p, r, Response("Forbidden", "not authorized to delete this entry"))
            ELSE Goto(p, "ed_DeleteComments", r, [NoLoc EXCEPT !.entry = Ptr(entry)])
    /\ UNCHANGED <<schemas, entries, terms, nextOid, created>>
    /\ UNCHANGED valVars
    /\ UNCHANGED svcVars
    /\ UNCHANGED bgVars

\* MongoRepo.DeleteEntry, first statement: comments.DeleteMany({entry_id: id})
DeleteCommentsOf(id) == {c \in comments : c.EntryID # id}

EntryDeleteComments(p) ==
    /\ pc[p] = "ed_DeleteComments"
    /\ \/ /\ Respond(p, req[p], Response("InternalError", "failed to delete entry"))
          /\ comments' = comments
       \/ /\ comments' = DeleteCommentsOf(req[p].id)
          /\ Goto(p, "ed_DeleteEntry", req[p], loc[p])
    /\ UNCHANGED <<schemas, entries, terms, nextOid, created, started>>
    /\ UNCHANGED <<syncSvc, goroutines, indexed>>
    /\ UNCHANGED valVars
    /\ UNCHANGED svcVars

\* MongoRepo.DeleteEntry, second statement: entries.DeleteOne({_id: id})
DeleteEntry(id) == {e \in entries : e.ID # id}

EntryDeleteRun(p) ==
    /\ pc[p] = "ed_DeleteEntry"
    /\ \/ /\ Respond(p, req[p], Response("InternalError", "failed to delete entry"))
          /\ UNCHANGED <<entries, goroutines>>
       \/ /\ entries' = DeleteEntry(req[p].id)
          /\ GoThenRespond(p, DeleteEntryGoroutine(req[p].id), Response("Success", "nil"))
    /\ UNCHANGED <<schemas, terms, nextOid, created, started>>
    /\ UNCHANGED <<comments, syncSvc, indexed>>
    /\ UNCHANGED valVars
    /\ UNCHANGED svcVars

(***************************************************************************)
(* CommentHandler.Create                                                   *)
(***************************************************************************)
\* the zero ObjectID: the ParentID and RootID of a top-level comment
NilObjectID == 0

\* FindOne({_id: id}) on comments
GetCommentByID(id) == {c \in comments : c.ID = id}

\* entry_id is any ObjectID issued so far, the id of a stored entry or not;
\* parent_id is empty or names a comment stored now
CommentCreateRequests ==
    {[op |-> "CommentHandler.Create", entry_id |-> id, parent_id |-> parent,
      session |-> session] :
        id \in 1..(nextOid - 1),
        parent \in {NilObjectID} \cup {c.ID : c \in comments},
        session \in {s \in Sessions : s.user_role = "user"}}

\* bind the request, verify with GetEntryByID that the entry exists, build
\* the comment
CommentCreateRead(p) ==
    /\ Accept(p)
    /\ \E r \in CommentCreateRequests :
        \/ Respond(p, r, Response("InternalError", "failed to verify entry"))
        \/ /\ GetEntryByID(r.entry_id) = {}
           /\ Respond(p, r, Response("NotFound", "entry not found"))
        \/ /\ GetEntryByID(r.entry_id) # {}
           /\ LET comment == [ID |-> NilObjectID, EntryID |-> r.entry_id,
                              AuthorID |-> r.session.user_id,
                              ParentID |-> NilObjectID, RootID |-> NilObjectID]
              IN  Goto(p, IF r.parent_id # NilObjectID THEN "cc_GetCommentByID"
                                                       ELSE "cc_CreateComment",
                       r, [NoLoc EXCEPT !.comment = Ptr(comment)])
    /\ UNCHANGED <<schemas, entries, terms, nextOid, created>>
    /\ UNCHANGED valVars
    /\ UNCHANGED svcVars
    /\ UNCHANGED bgVars

\* `if req.ParentID != ""`: GetCommentByID of the parent, which gives the root
CommentCreateParent(p) ==
    /\ pc[p] = "cc_GetCommentByID"
    /\ \/ Respond(p, req[p], Response("InternalError", "failed to get parent comment"))
       \/ /\ GetCommentByID(req[p].parent_id) = {}
          /\ Respond(p, req[p], Response("NotFound", "parent comment not found"))
       \/ \E parentComment \in GetCommentByID(req[p].parent_id) :
             Goto(p, "cc_CreateComment", req[p],
                  [loc[p] EXCEPT !.comment =
                      Ptr([loc[p].comment[1] EXCEPT
                              !.ParentID = req[p].parent_id,
                              !.RootID = IF parentComment.RootID = NilObjectID
                                         THEN req[p].parent_id
                                         ELSE parentComment.RootID])])
    /\ UNCHANGED <<schemas, entries, terms, nextOid, created, started>>
    /\ UNCHANGED valVars
    /\ UNCHANGED svcVars
    /\ UNCHANGED bgVars

\* MongoRepo.CreateComment: InsertOne, the driver's fresh _id
CreateComment(comment) == comments \cup {[comment EXCEPT !.ID = nextOid]}

CommentCreateInsert(p) ==
    /\ pc[p] = "cc_CreateComment"
    /\ \/ /\ Respond(p, req[p], Response("InternalError", "failed to create comment"))
          /\ UNCHANGED <<comments, nextOid>>
       \/ /\ comments' = CreateComment(loc[p].comment[1])
          /\ nextOid' = nextOid + 1
          /\ Respond(p, req[p], Response("Created", [loc[p].comment[1] EXCEPT !.ID = nextOid]))
    /\ UNCHANGED <<schemas, entries, terms, created, started>>
    /\ UNCHANGED <<syncSvc, goroutines, indexed>>
    /\ UNCHANGED valVars
    /\ UNCHANGED svcVars

(***************************************************************************)
(* SchemaHandler.List                                                      *)
(***************************************************************************)
\* MongoRepo.ListSchemas: $sort by version descending, $group by key keeping
\* the $first row. The results the pipeline can give: one row for each stored
\* key, a row of the greatest version of that key (rows of equal version come
\* in no defined order).
ListSchemas ==
    {rows \in SUBSET schemas :
        /\ \A r \in rows : r \in GetLatestSchema(r.Key)
        /\ \A s \in schemas : Cardinality({r \in rows : r.Key = s.Key}) = 1}

SchemaListRequests == {[op |-> "SchemaHandler.List"]}

SchemaList(p) ==
    /\ Accept(p)
    /\ \E r \in SchemaListRequests :
        \/ Respond(p, r, Response("InternalError", "failed to list schemas"))
        \/ \E rows \in ListSchemas : Respond(p, r, Response("Success", rows))
    /\ UNCHANGED <<schemas, entries, terms, nextOid, created>>
    /\ UNCHANGED valVars
    /\ UNCHANGED svcVars
    /\ UNCHANGED bgVars

(***************************************************************************)
(* The handlers as concurrent requests                                     *)
(***************************************************************************)
ValIdle ==
    /\ vFields = << >>
    /\ vData = EmptyMap
    /\ vCtx = {}
    /\ vErrs = << >>
    /\ calls = << >>

\* The database outlives the process: at start-up the schemas collection is
\* empty or holds the first version of a key, created by an earlier run.
SeedSchemaStores ==
    {{}} \cup {{NewSchemaRow(1, [Key |-> k, Name |-> n, Fields |-> f], 1)} :
                  k \in Keys, n \in Names, f \in FieldLists}

\* main: NewSyncService(meiliRepo), made only when a Meilisearch host is
\* configured and reachable; syncSvc stays nil otherwise
NewSyncService == Ptr([meiliRepo |-> "MeiliRepo"])
SyncServices == {NilPtr, NewSyncService}

Init ==
    /\ schemas \in SeedSchemaStores
    /\ entries = {}
    /\ terms = SeedTerms
    /\ nextOid = Cardinality(schemas) + 1
    /\ pc = [p \in Slots |-> "idle"]
    /\ req = [p \in Slots |-> NoReq]
    /\ loc = [p \in Slots |-> NoLoc]
    /\ resp = [p \in Slots |-> NoResp]
    /\ created = [k \in Keys |-> Cardinality({s \in schemas : s.Key = k})]
    /\ started = 0
    /\ SvcIdle
    /\ comments = {}
    /\ syncSvc = NewSyncService
    /\ goroutines = {}
    /\ indexed = {}
    /\ ValIdle

\* The steps of the handlers. The goroutines they start only write the search
\* index, which no handler reads; their steps are taken in SpecSync.
Next ==
    \E p \in Slots :
        \/ SchemaCreateRead(p)
        \/ SchemaCreateInsert(p)
        \/ SchemaDeleteCheck(p)
        \/ SchemaDeleteRun(p)
        \/ EntryCreateRead(p)
        \/ EntryCreateValidate(p)
        \/ EntryCreateInsert(p)
        \/ EntryUpdateRead(p)
        \/ EntryUpdateSchema(p)
        \/ EntryUpdateValidate(p)
        \/ EntryUpdateWrite(p)

Spec == Init /\ [][Next]_vars

(***************************************************************************)
(* SpecSync: the entry handlers and the goroutines they start              *)
(***************************************************************************)
\* The store at start-up: one schema row, one entry of user u1 created under
\* it by an earlier run, one comment on that entry.
SeedSchema == NewSchemaRow(1, [Key |-> "post", Name |-> "Post", Fields |-> <<FTitle>>], 1)
SeedEntry ==
    [ID |-> 2, SchemaID |-> SeedSchema.ID, SchemaKey |-> SeedSchema.Key,
     SchemaVersion |-> SeedSchema.Version, AuthorID |-> "u1",
     Title |-> "t0", Body |-> "b0", Attributes |-> DTitle]
SeedComment ==
    [ID |-> 3, EntryID |-> SeedEntry.ID, AuthorID |-> "u2",
     ParentID |-> NilObjectID, RootID |-> NilObjectID]

InitSync ==
    /\ schemas = {SeedSchema}
    /\ entries = {SeedEntry}
    /\ terms = SeedTerms
    /\ nextOid = 4
    /\ pc = [p \in Slots |-> "idle"]
    /\ req = [p \in Slots |-> NoReq]
    /\ loc = [p \in Slots |-> NoLoc]
    /\ resp = [p \in Slots |-> NoResp]
    /\ created = [k \in Keys |-> 1]
    /\ started = 0
    /\ SvcIdle
    /\ comments = {SeedComment}
    /\ syncSvc \in SyncServices
    /\ goroutines = {}
    /\ indexed = IF syncSvc = NilPtr THEN {} ELSE {entryToSearchDoc(SeedEntry)}
    /\ ValIdle

NextSync ==
    \/ \E p \in Slots :
        \/ EntryCreateRead(p)
        \/ EntryCreateValidate(p)
        \/ EntryCreateInsert(p)
        \/ EntryUpdateRead(p)
        \/ EntryUpdateSchema(p)
        \/ EntryUpdateValidate(p)
        \/ EntryUpdateWrite(p)
        \/ EntryDeleteRead(p)
        \/ EntryDeleteComments(p)
        \/ EntryDeleteRun(p)
    \/ \E g \in goroutines : GoSyncEntry(g)
    \/ \E g \in goroutines : GoDeleteEntry(g)

SpecSync == InitSync /\ [][NextSync]_vars

(***************************************************************************)
(* SpecSchemas: the schema handlers, next to another key and a pinned entry *)
(***************************************************************************)
\* two versions of a second key, which no request of the model names
PageRow(id, version) ==
    NewSchemaRow(id, [Key |-> "page", Name |-> "Page", Fields |-> <<FTitle>>], version)
SeedPageRows == {PageRow(5, 1), PageRow(6, 2)}

InitSchemas ==
    /\ schemas = {SeedSchema} \cup SeedPageRows
    /\ entries = {SeedEntry}
    /\ terms = SeedTerms
    /\ nextOid = 7
    /\ pc = [p \in Slots |-> "idle"]
    /\ req = [p \in Slots |-> NoReq]
    /\ loc = [p \in Slots |-> NoLoc]
    /\ resp = [p \in Slots |-> NoResp]
    /\ created = [k \in Keys |-> 1]
    /\ started = 0
    /\ SvcIdle
    /\ comments = {SeedComment}
    /\ syncSvc = NewSyncService
    /\ goroutines = {}
    /\ indexed = {entryToSearchDoc(SeedEntry)}
    /\ ValIdle

NextSchemas ==
    \E p \in Slots :
        \/ SchemaCreateRead(p)
        \/ SchemaCreateInsert(p)
        \/ SchemaDeleteCheck(p)
        \/ SchemaDeleteRun(p)
        \/ SchemaList(p)

SpecSchemas == InitSchemas /\ [][NextSchemas]_vars

(***************************************************************************)
(* SpecOwner: entry Update and Delete requested by the author, by another  *)
(* user and by an admin, with the search service configured                *)
(***************************************************************************)
\* the seeded entry, its comment and its index document are there; the
\* request that created the entry has been served
InitOwner ==
    /\ schemas = {SeedSchema}
    /\ entries = {SeedEntry}
    /\ terms = SeedTerms
    /\ nextOid = SeedComment.ID + 1
    /\ pc = [p \in Slots |-> "idle"]
    /\ req = [p \in Slots |-> NoReq]
    /\ loc = [p \in Slots |-> NoLoc]
    /\ resp = [p \in Slots |-> NoResp]
    /\ created = [k \in Keys |-> 1]
    /\ started = 1
    /\ SvcIdle
    /\ comments = {SeedComment}
    /\ syncSvc = NewSyncService
    /\ goroutines = {}
    /\ indexed = {entryToSearchDoc(SeedEntry)}
    /\ ValIdle

NextOwner ==
    \/ \E p \in Slots :
        \/ EntryUpdateRead(p)
        \/ EntryUpdateSchema(p)
        \/ EntryUpdateValidate(p)
        \/ EntryUpdateWrite(p)
        \/ EntryDeleteRead(p)
        \/ EntryDeleteComments(p)
        \/ EntryDeleteRun(p)
    \/ \E g \in goroutines : GoSyncEntry(g)
    \/ \E g \in goroutines : GoDeleteEntry(g)

SpecOwner == InitOwner /\ [][NextOwner]_vars

(***************************************************************************)
(* SpecComments: comment Create and entry Delete as concurrent requests    *)
(***************************************************************************)
NextComments ==
    \/ \E p \in Slots :
        \/ CommentCreateRead(p)
        \/ CommentCreateParent(p)
        \/ CommentCreateInsert(p)
        \/ EntryDeleteRead(p)
        \/ EntryDeleteComments(p)
        \/ EntryDeleteRun(p)
    \/ \E g \in goroutines : GoDeleteEntry(g)

InitComments ==
    /\ InitSync
    /\ syncSvc = NewSyncService

SpecComments == InitComments /\ [][NextComments]_vars

(***************************************************************************)
(* AuthService.generateState and ValidateState, the state rows in MongoDB  *)
(***************************************************************************)
\* the clock counts periods of five minutes; `time.Now().Add(10 * time.Minute)`
StateTTL == 2
MaxClock == 2
\* the number of generateState calls and of ValidateState calls of a behaviour
MaxStates == 2
MaxValidations == 2

\* the state string of the n-th generated ObjectID: 32 random bytes, never the
\* same twice; ForgedState is a string generateState never returned
StateOf(n) == <<"state", n>>
ForgedState == <<"forged", 0>>
\* the ObjectIDs issued after the seeded rows belong to generated states
FirstState == SeedComment.ID + 1
GeneratedStates == {StateOf(n) : n \in FirstState..(nextOid - 1)}

\* generateState: CreateOAuthState inserts {state, expires_at}. When rand.Read
\* or the insert fails no state is returned and nothing is stored.
generateState ==
    /\ nextOid - FirstState < MaxStates
    /\ oauthStates' = oauthStates \cup
          {[ID |-> nextOid, State |-> StateOf(nextOid), ExpiresAt |-> clock + StateTTL]}
    /\ nextOid' = nextOid + 1
    /\ UNCHANGED <<schemas, entries, terms, pc, req, loc, resp, created, started>>
    /\ UNCHANGED <<bgVars, retries, clock, validated>>
    /\ UNCHANGED valVars

\* the frame of a ValidateState(ctx, state) call; at is the time.Now() of its
\* return statement, done lists the calls that had returned when this one was
\* made
ValidateStateFrame(state) ==
    [state |-> state, st |-> "GetAndDeleteOAuthState", oauthState |-> NilPtr,
     ok |-> FALSE, at |-> 0,
     done |-> {k \in DOMAIN validated : validated[k].st = "returned"}]

\* a handler calls ValidateState with a state that was generated or forged
ValidateStateCall ==
    /\ Len(validated) < MaxValidations
    /\ \E state \in GeneratedStates \cup {ForgedState} :
          validated' = Append(validated, ValidateStateFrame(state))
    /\ UNCHANGED <<schemas, entries, terms, nextOid, pc, req, loc, resp, created, started>>
    /\ UNCHANGED <<bgVars, retries, oauthStates, clock>>
    /\ UNCHANGED valVars

\* the rows FindOneAndDelete({state}) can match (the index on state is unique)
FindOAuthState(state) == {r \in oauthStates : r.State = state}

\* variant: the row is read and left in the collection
GetAndDeleteOAuthState_findOnly(row) == oauthStates

\* the collection after FindOneAndDelete matched row
GetAndDeleteOAuthState(row) == oauthStates \ {row}

\* `oauthState, err := s.mongoRepo.GetAndDeleteOAuthState(ctx, state)`: the
\* command fails (before or after the server ran it), or matches no row
\* (mongo.ErrNoDocuments), and ValidateState returns false; or it removes the
\* row and returns it
ValidateStateFind(k) ==
    /\ k \in DOMAIN validated
    /\ validated[k].st = "GetAndDeleteOAuthState"
    /\ \/ /\ validated' = [validated EXCEPT ![k] = [@ EXCEPT !.st = "returned"]]
          /\ \/ oauthStates' = oauthStates
             \/ \E row \in FindOAuthState(validated[k].state) :
                   oauthStates' = GetAndDeleteOAuthState(row)
       \/ /\ FindOAuthState(validated[k].state) = {}
          /\ validated' = [validated EXCEPT ![k] = [@ EXCEPT !.st = "returned"]]
          /\ oauthStates' = oauthStates
       \/ \E row \in FindOAuthState(validated[k].state) :
             /\ oauthStates' = GetAndDeleteOAuthState(row)
             /\ validated' = [validated EXCEPT ![k] =
                                 [@ EXCEPT !.st = "time.Now", !.oauthState = Ptr(row)]]
    /\ UNCHANGED <<schemas, entries, terms, nextOid, pc, req, loc, resp, created, started>>
    /\ UNCHANGED <<bgVars, retries, clock>>
    /\ UNCHANGED valVars

\* `return time.Now().Before(oauthState.ExpiresAt)`
ValidateStateReturn(k) ==
    /\ k \in DOMAIN validated
    /\ validated[k].st = "time.Now"
    /\ validated' = [validated EXCEPT ![k] =
                        [@ EXCEPT !.st = "returned", !.at = clock,
                                  !.ok = clock < validated[k].oauthState[1].ExpiresAt]]
    /\ UNCHANGED <<schemas, entries, terms, nextOid, pc, req, loc, resp, created, started>>
    /\ UNCHANGED <<bgVars, retries, oauthStates, clock>>
    /\ UNCHANGED valVars

\* the TTL index on expires_at (ExpireAfterSeconds 0): the server's monitor
\* deletes the rows whose expires_at has passed
ExpireOAuthStates ==
    /\ \E r \in oauthStates : r.ExpiresAt <= clock
    /\ oauthStates' = {r \in oauthStates : r.ExpiresAt > clock}
    /\ UNCHANGED <<schemas, entries, terms, nextOid, pc, req, loc, resp, created, started>>
    /\ UNCHANGED <<bgVars, retries, clock, validated>>
    /\ UNCHANGED valVars

\* five minutes pass
Tick ==
    /\ clock < MaxClock
    /\ clock' = clock + 1
    /\ UNCHANGED <<schemas, entries, terms, nextOid, pc, req, loc, resp, created, started>>
    /\ UNCHANGED <<bgVars, retries, oauthStates, validated>>
    /\ UNCHANGED valVars

NextOAuth ==
    \/ generateState
    \/ ValidateStateCall
    \/ \E k \in 1..MaxValidations : ValidateStateFind(k)
    \/ \E k \in 1..MaxValidations : ValidateStateReturn(k)
    \/ ExpireOAuthStates
    \/ Tick

InitOAuth ==
    /\ InitSync
    /\ syncSvc = NewSyncService

SpecOAuth == InitOAuth /\ [][NextOAuth]_vars

(***************************************************************************)
(* SyncService.SyncEntryAsync and syncWithRetry                            *)
(***************************************************************************)
\* `s.syncWithRetry(entry, 3)`
SyncRetries == 3
\* the number of SyncEntryAsync goroutines of a behaviour
MaxAsync == 2

\* the frame of syncWithRetry at loop entry: `var err error`, `i := 0`;
\* calls counts the calls of s.SyncEntry
Retry(entry, maxRetries) ==
    [entry |-> entry, maxRetries |-> maxRetries, i |-> 0, calls |-> 0,
     err |-> "unset", st |-> "running"]

\* variant: the loop does not return when SyncEntry succeeds
syncWithRetryStep_ignoresSuccess(r, err) ==
    LET n == [r EXCEPT !.calls = r.calls + 1, !.err = err, !.i = r.i + 1] IN
    IF n.i < n.maxRetries
    THEN n
    ELSE [n EXCEPT !.st = "gave up"]

\* one iteration of `for i := 0; i < maxRetries; i++`, entered with
\* i < maxRetries: SyncEntry is called; on nil the function returns; otherwise
\* it logs, sleeps (i+1) seconds and increments i, and when the loop condition
\* then fails it logs "giving up" and returns
syncWithRetryStep(r, err) ==
    LET n == [r EXCEPT !.calls = r.calls + 1, !.err = err] IN
    IF err = "nil"
    THEN [n EXCEPT !.st = "returned"]
    ELSE IF n.i + 1 < n.maxRetries
         THEN [n EXCEPT !.i = n.i + 1]
         ELSE [n EXCEPT !.i = n.i + 1, !.st = "gave up"]

\* SyncService.SyncEntryAsync(entry): `go func() { ... s.syncWithRetry(entry, 3) }()`
SyncEntryAsync(entry) ==
    /\ Len(retries) < MaxAsync
    /\ entry \in entries
    /\ retries' = Append(retries,
                         IF SyncRetries > 0
                         THEN Retry(entry, SyncRetries)
                         ELSE [Retry(entry, SyncRetries) EXCEPT !.st = "gave up"])
    /\ UNCHANGED <<schemas, entries, terms, nextOid, pc, req, loc, resp, created, started>>
    /\ UNCHANGED <<bgVars, oauthStates, clock, validated>>
    /\ UNCHANGED valVars

\* goroutine k runs one iteration of the loop. s.SyncEntry on a nil service
\* dereferences nil at s.meiliRepo; the deferred recover of SyncEntryAsync
\* catches the panic and the goroutine ends. Otherwise IndexDocument answers
\* nil, the document stored, or an error, the index as it was.
RetryAttempt(k) ==
    /\ k \in DOMAIN retries
    /\ retries[k].st = "running"
    /\ \/ /\ syncSvc = NilPtr
          /\ retries' = [retries EXCEPT ![k] = [@ EXCEPT !.calls = @ + 1, !.err = "panic",
                                                         !.st = "recovered"]]
          /\ indexed' = indexed
       \/ /\ syncSvc # NilPtr
          /\ \E err \in {"nil", "error"} :
                /\ retries' = [retries EXCEPT ![k] = syncWithRetryStep(@, err)]
                /\ indexed' = IF err = "nil"
                              THEN IndexDocument(entryToSearchDoc(retries[k].entry))
                              ELSE indexed
    /\ UNCHANGED <<schemas, entries, terms, nextOid, pc, req, loc, resp, created, started>>
    /\ UNCHANGED <<comments, syncSvc, goroutines, oauthStates, clock, validated>>
    /\ UNCHANGED valVars

SecondEntry == [SeedEntry EXCEPT !.ID = 4, !.Title = "t1"]

InitRetry ==
    /\ schemas = {SeedSchema}
    /\ entries = {SeedEntry, SecondEntry}
    /\ terms = SeedTerms
    /\ nextOid = 5
    /\ pc = [p \in Slots |-> "idle"]
    /\ req = [p \in Slots |-> NoReq]
    /\ loc = [p \in Slots |-> NoLoc]
    /\ resp = [p \in Slots |-> NoResp]
    /\ created = [k \in Keys |-> 1]
    /\ started = 0
    /\ SvcIdle
    /\ comments = {}
    /\ syncSvc \in SyncServices
    /\ goroutines = {}
    /\ indexed = {}
    /\ ValIdle

NextRetry ==
    \/ \E entry \in entries : SyncEntryAsync(entry)
    \/ \E k \in 1..MaxAsync : RetryAttempt(k)

\* a started goroutine is scheduled, and its sleep of (i+1) seconds ends
SpecRetry ==
    /\ InitRetry
    /\ [][NextRetry]_vars
    /\ \A k \in 1..MaxAsync : WF_vars(RetryAttempt(k))

(***************************************************************************)
(* SchemaValidator.ValidateEntry on its own: schemas, documents and term   *)
(* lookups drawn from bounded sets, the handlers at rest.                  *)
(***************************************************************************)
MaxCalls == 2

WithChildren(f, children) == [f EXCEPT !.Children = children]
WithItemType(f, item) == [f EXCEPT !.ItemType = Ptr(item)]
WithTaxonomy(f, taxonomyKey, multiple) ==
    [f EXCEPT !.TaxonomyKey = taxonomyKey, !.AllowMultiple = multiple]

SX == StringV(<<"x">>)
SY == StringV(<<"y">>)
N5 == Float64V(5)

FChildB == Field("b", TypeString, TRUE)
FChildC == Field("c", TypeString, TRUE)
FItemString == Field("", TypeString, FALSE)
FItemNumber == Field("", TypeNumber, TRUE)

\* declarations of the field "a"
VFieldsA ==
    { Field("a", TypeString, TRUE),
      Field("a", TypeNumber, FALSE),
      Field("a", TypeBool, FALSE),
      Field("a", TypeDate, FALSE),
      WithChildren(Field("a", TypeObject, TRUE), <<FChildB>>),
      WithChildren(Field("a", TypeObject, FALSE),
                   <<WithChildren(Field("b", TypeObject, TRUE), <<FChildC>>), FChildC>>),
      Field("a", TypeObject, FALSE),
      WithItemType(Field("a", TypeArray, TRUE), FItemString),
      WithItemType(Field("a", TypeArray, FALSE), FItemNumber),
      WithItemType(Field("a", TypeArray, FALSE),
                   WithItemType(Field("row", TypeArray, FALSE), FItemString)),
      WithItemType(Field("a", TypeArray, FALSE),
                   WithChildren(Field("", TypeObject, FALSE), <<FChildB>>)),
      Field("a", TypeArray, FALSE),
      WithTaxonomy(Field("a", TypeTaxonomy, TRUE), "people", FALSE),
      WithTaxonomy(Field("a", TypeTaxonomy, FALSE), "", FALSE),
      WithTaxonomy(Field("a", TypeTaxonomy, FALSE), "people", TRUE),
      Field("a", "richtext", FALSE) }

\* declarations of the field "k"
FDefaulted == [Field("k", TypeString, FALSE) EXCEPT !.Default = SX]

VFieldsK == {Field("k", TypeString, TRUE), Field("k", TypeNumber, FALSE), FDefaulted}

VFieldLists ==
    {<<f>> : f \in VFieldsA} \cup {<<f, g>> : f \in VFieldsA, g \in VFieldsK}
        \cup {<<g, f>> : g \in VFieldsK, f \in VFieldsA}

\* values of the key "a"
VValuesA ==
    { Nil, SX, StringV(DateGood), StringV(DateOnly),
      StringV(T1Hex), StringV(T2Hex), StringV(T3Hex), StringV(T1UpperHex), StringV(BadHex),
      N5, IntV(5), UintV(5), BoolV(TRUE), TimeV(0),
      MapV(EmptyMap), MapV([b |-> SX]), MapV([b |-> N5]), MapV([c |-> SX]),
      MapV([b |-> MapV(EmptyMap), c |-> SX]), MapV([b |-> MapV([c |-> SX]), c |-> SX]),
      ArrayV(<< >>), ArrayV(<<SX, N5>>), ArrayV(<<SX, SY>>), ArrayV(<<N5, SX, N5>>),
      ArrayV(<<Nil, SX>>), ArrayV(<<N5, Nil>>),
      ArrayV(<<StringV(T1Hex)>>), ArrayV(<<StringV(T1Hex), StringV(T2Hex)>>),
      ArrayV(<<StringV(T3Hex), StringV(T2Hex)>>), ArrayV(<<StringV(T1Hex), N5>>),
      ArrayV(<<ArrayV(<<SX>>), ArrayV(<<SX, N5>>)>>),
      ArrayV(<<MapV([b |-> SX]), MapV(EmptyMap)>>) }

\* values of the key "k"
VValuesK == {SX, N5}

VDocs ==
    {EmptyMap} \cup {[a |-> va] : va \in VValuesA} \cup {[k |-> vk] : vk \in VValuesK}
        \cup {[a |-> va, k |-> vk] : va \in VValuesA, vk \in VValuesK}

VTermStores == {SeedTerms, {}}
VCtxs == {{}, {OidOf(T1Hex)}, {OidOf(T2Hex)}}

InitV ==
    /\ schemas = {}
    /\ entries = {}
    /\ terms \in VTermStores
    /\ nextOid = 1
    /\ pc = [p \in Slots |-> "idle"]
    /\ req = [p \in Slots |-> NoReq]
    /\ loc = [p \in Slots |-> NoLoc]
    /\ resp = [p \in Slots |-> NoResp]
    /\ created = [k \in Keys |-> 0]
    /\ started = 0
    /\ SvcIdle
    /\ comments = {}
    /\ syncSvc = NilPtr
    /\ goroutines = {}
    /\ indexed = {}
    /\ calls = << >>
    /\ vFields \in VFieldLists
    /\ vData \in VDocs
    /\ vCtx \in VCtxs
    /\ vErrs = << >>

\* variant: the validator remembers that it has rejected and accepts the next call
ValidateCall_remembers ==
    /\ Len(vErrs) < MaxCalls
    /\ vErrs' = Append(vErrs, IF vErrs # << >> /\ vErrs[Len(vErrs)] # NoErr
                              THEN NoErr
                              ELSE ValidateEntry(vCtx, vFields, vData))
    /\ UNCHANGED <<vFields, vData, vCtx, terms, calls>>
    /\ UNCHANGED sysVars

\* variant: the defaults of absent fields are written into the document
ValidateCall_injectsDefaults ==
    /\ Len(vErrs) < MaxCalls
    /\ vErrs' = Append(vErrs, ValidateEntry(vCtx, vFields, vData))
    /\ vData' = [k \in DOMAIN vData \cup {vFields[i].Key : i \in 1..Len(vFields)} |->
                    IF k \in DOMAIN vData THEN vData[k]
                    ELSE (CHOOSE f \in {vFields[i] : i \in 1..Len(vFields)} : f.Key = k).Default]
    /\ UNCHANGED <<vFields, vCtx, terms, calls>>
    /\ UNCHANGED sysVars

ValidateCall ==
    /\ Len(vErrs) < MaxCalls
    /\ vErrs' = Append(vErrs, ValidateEntry(vCtx, vFields, vData))
    /\ UNCHANGED <<vFields, vData, vCtx, terms, calls>>
    /\ UNCHANGED sysVars

NextV == ValidateCall

SpecV == InitV /\ [][NextV]_vars

(***************************************************************************)
(* SpecC: concurrent invocations of ValidateEntry. Each caller runs the    *)
(* loop of validateFields over the fields of its schema one iteration at a *)
(* time, and the loop of validateTaxonomyField over the term ids of a      *)
(* multi-valued field one lookup at a time; the steps of different callers *)
(* interleave freely. A caller holds its arguments, its own context and    *)
(* its loop positions; the validator itself holds only mongoRepo.          *)
(***************************************************************************)
NumCallers == 2
Callers == 1..NumCallers

FTags == WithTaxonomy(Field("tags", TypeTaxonomy, FALSE), "places", TRUE)
CFieldLists == {<<FTitle, FAuthor>>, <<FAuthor, FTitle>>, <<FTags, FTitle>>}
CDocs ==
    { DTitle, DFull,
      [title |-> SX, author |-> StringV(T2Hex)],
      [title |-> SX, tags |-> ArrayV(<<StringV(T2Hex), StringV(T1Hex)>>)],
      [title |-> N5, author |-> StringV(T1Hex),
       tags |-> ArrayV(<<StringV(T2Hex), StringV(T2Hex)>>)] }

\* a caller outside ValidateEntry
NoCall == [st |-> "idle"]

\* the frame of an invocation: arguments, context, the positions of the two loops
Call(ctx, fields, data) ==
    [st |-> "running", fields |-> fields, data |-> data, ctx |-> ctx, i |-> 1, j |-> 1]

Returned(call, err) == [call EXCEPT !.st = "done", !.i = 0, !.j = 0] @@ [err |-> err]

\* one iteration of `for _, field := range fields`; for a present multi-valued
\* taxonomy field holding an array, one iteration of `for _, item := range arr`
CallAfterStep(call) ==
    IF call.i > Len(call.fields) THEN Returned(call, NoErr)
    ELSE LET field == call.fields[call.i]
             exists == field.Key \in DOMAIN call.data
             value == call.data[field.Key]
             next == [call EXCEPT !.i = @ + 1, !.j = 1]
         IN  IF field.Required /\ ~exists
             THEN Returned(call, Errorf("required field '%s' is missing", field.Key))
             ELSE IF ~exists THEN next
             ELSE IF /\ value.t = "[]any"
                     /\ field.Type = TypeTaxonomy
                     /\ field.AllowMultiple
             THEN IF call.j > Len(value.a) THEN next
                  ELSE IF value.a[call.j].t # "string"
                  THEN Returned(call, Errorf("field '%s' must contain string term IDs",
                                             field.Key))
                  ELSE LET err == validateTermID(call.ctx, field, value.a[call.j].s) IN
                       IF err # NoErr THEN Returned(call, err)
                       ELSE [call EXCEPT !.j = @ + 1]
             ELSE LET err == validateFieldType(call.ctx, field, value) IN
                  IF err # NoErr THEN Returned(call, err) ELSE next

\* a caller enters ValidateEntry with its own schema, document and context
CallStart(c) ==
    /\ calls[c] = NoCall
    /\ \E ctx \in CtxFaults, fields \in CFieldLists, data \in CDocs :
          calls' = [calls EXCEPT ![c] = Call(ctx, fields, data)]
    /\ UNCHANGED <<vFields, vData, vCtx, vErrs, terms>>
    /\ UNCHANGED sysVars

\* variant: the loop positions are fields of the validator, shared by the callers
CallStep_sharedPositions(c) ==
    /\ calls[c].st = "running"
    /\ LET after == CallAfterStep(calls[c]) IN
       calls' = [d \in Callers |->
                    IF d = c THEN after
                    ELSE IF calls[d].st = "running" /\ after.st = "running"
                    THEN [calls[d] EXCEPT !.i = after.i, !.j = after.j]
                    ELSE calls[d]]
    /\ UNCHANGED <<vFields, vData, vCtx, vErrs, terms>>
    /\ UNCHANGED sysVars

\* the caller's invocation takes its next step, or returns
CallStep(c) ==
    /\ calls[c].st = "running"
    /\ calls' = [calls EXCEPT ![c] = CallAfterStep(calls[c])]
    /\ UNCHANGED <<vFields, vData, vCtx, vErrs, terms>>
    /\ UNCHANGED sysVars

InitC ==
    /\ schemas = {}
    /\ entries = {}
    /\ terms = SeedTerms
    /\ nextOid = 1
    /\ pc = [p \in Slots |-> "idle"]
    /\ req = [p \in Slots |-> NoReq]
    /\ loc = [p \in Slots |-> NoLoc]
    /\ resp = [p \in Slots |-> NoResp]
    /\ created = [k \in Keys |-> 0]
    /\ started = 0
    /\ SvcIdle
    /\ comments = {}
    /\ syncSvc = NilPtr
    /\ goroutines = {}
    /\ indexed = {}
    /\ vFields = << >>
    /\ vData = EmptyMap
    /\ vCtx = {}
    /\ vErrs = << >>
    /\ calls = [c \in Callers |-> NoCall]

NextC ==
    \E c \in Callers :
        \/ CallStart(c)
        \/ CallStep(c)

SpecC == InitC /\ [][NextC]_vars

(***************************************************************************)
(* Properties                                                              *)
(***************************************************************************)
Min(S) == CHOOSE x \in S : \A y \in S : x <= y

RowsOf(key) == {s \in schemas : s.Key = key}

\* greatest stored version of a key, 0 when the key has no row
MaxVersion(key) ==
    IF RowsOf(key) = {} THEN 0
    ELSE CHOOSE v \in {s.Version : s \in RowsOf(key)} :
            \A s \in RowsOf(key) : s.Version <= v

MissingMsg == "required field '%s' is missing"
LookupFailedMsg == "field '%s': failed to validate term"
ItemMsg == "field '%s[%d]': %w"

\* C1: for every schema key the stored versions are exactly 1..N, each once,
\* where N is the number of successful Creates of the key (since it last had no
\* row), and GetLatestSchema returns version N.
C1_VersionsAreOneToN ==
    \A k \in Keys :
        /\ {s.Version : s \in RowsOf(k)} = 1..created[k]
        /\ Cardinality(RowsOf(k)) = created[k]
        /\ \A s \in GetLatestSchema(k) : s.Version = created[k]

\* C2: no two stored schema rows share the same (key, version).
C2_NoDuplicateKeyVersion ==
    \A s \in schemas, t \in schemas :
        (s.Key = t.Key /\ s.Version = t.Version) => s = t

\* C3: an entry Create request reads a maximum-version row of its schema key,
\* goes on to insert only if ValidateEntry accepted the attributes against that
\* row, and the entry it inserts carries that row's id, key and version.
IsLatestRow(s, key) ==
    /\ s \in schemas
    /\ s.Key = key
    /\ \A t \in schemas : t.Key = key => t.Version <= s.Version

C3_CreateStep(p) ==
    /\ (pc[p] = "idle" /\ pc'[p] = "ec_ValidateEntry") =>
            IsLatestRow(loc'[p].schema[1], req'[p].SchemaKey)
    /\ (pc[p] = "ec_ValidateEntry" /\ pc'[p] = "ec_CreateEntry") =>
            /\ loc'[p] = loc[p]
            /\ req'[p] = req[p]
            /\ \E ctx \in CtxFaults :
                 ValidateEntry(ctx, loc[p].schema[1].Fields, req[p].Attributes[1]) = NoErr
    /\ pc'[p] = "ec_CreateEntry" => pc[p] \in {"ec_ValidateEntry", "ec_CreateEntry"}
    /\ (pc[p] = "ec_CreateEntry" /\ pc'[p] = "ec_CreateEntry") =>
            (loc'[p] = loc[p] /\ req'[p] = req[p])

C3_EntryStampedWithSchemaRead ==
    [][ /\ \A p \in Slots : C3_CreateStep(p)
        /\ \A e \in entries' :
             e.ID \notin EntryIDs =>
                \E p \in Slots :
                    /\ pc[p] = "ec_CreateEntry"
                    /\ e.SchemaID = loc[p].schema[1].ID
                    /\ e.SchemaKey = loc[p].schema[1].Key
                    /\ e.SchemaVersion = loc[p].schema[1].Version
                    /\ e.Attributes = req[p].Attributes[1] ]_vars

C3_Witness ==
    \E e \in entries : e.SchemaVersion = 2 /\ "author" \in DOMAIN e.Attributes

\* C4: no step changes the schema_id, schema_key or schema_version of a stored
\* entry; a step that changes the schemas collection changes no entry; and an
\* entry Create validated against a row that requires a field the attributes
\* omit is rejected, as a missing required field when the fields declared
\* before it are satisfied.
C4_RejectsOmittedField(p) ==
    LET fields == loc[p].schema[1].Fields
        doc == req[p].Attributes[1]
        missing == {i \in 1..Len(fields) :
                        fields[i].Required /\ fields[i].Key \notin DOMAIN doc}
    IN  missing # {} =>
            /\ pc'[p] = "idle"
            /\ resp'[p].status = "BadRequest"
            /\ entries' = entries
            /\ (\A ctx \in CtxFaults :
                    ValidateEntry(ctx, SubSeq(fields, 1, Min(missing) - 1), doc) = NoErr)
                => resp'[p].body = Errorf(MissingMsg, fields[Min(missing)].Key)

C4_EntryKeepsItsSchemaVersion ==
    [][ /\ \A e \in entries, f \in entries' :
             f.ID = e.ID => /\ f.SchemaID = e.SchemaID
                            /\ f.SchemaKey = e.SchemaKey
                            /\ f.SchemaVersion = e.SchemaVersion
        /\ schemas' # schemas => entries' = entries
        /\ \A p \in Slots :
             (pc[p] = "ec_ValidateEntry" /\ pc'[p] # pc[p]) => C4_RejectsOmittedField(p) ]_vars

C4_Witness ==
    /\ \E e \in entries :
          /\ e.SchemaVersion = 1
          /\ \E s \in schemas : s.Key = e.SchemaKey /\ s.Version = 2
    /\ \E p \in Slots :
          /\ resp[p].status = "BadRequest"
          /\ resp[p].req.op = "EntryHandler.Create"
          /\ resp[p].body = Errorf(MissingMsg, "author")

\* C5: entry Update validates new attributes against the stored schema row whose
\* id is the entry's schema_id (the version the entry is stamped with); whether
\* the update goes on or is rejected is decided by that row alone.
C5_UpdateStep(p) ==
    /\ (pc[p] = "eu_GetSchemaByID" /\ pc'[p] = "eu_ValidateEntry") =>
            /\ loc'[p].schema[1] \in schemas
            /\ loc'[p].schema[1].ID = loc[p].entry[1].SchemaID
            /\ loc'[p].schema[1].Key = loc[p].entry[1].SchemaKey
            /\ loc'[p].schema[1].Version = loc[p].entry[1].SchemaVersion
    /\ pc'[p] = "eu_ValidateEntry" => pc[p] \in {"eu_GetSchemaByID", "eu_ValidateEntry"}
    /\ (pc[p] = "eu_ValidateEntry" /\ pc'[p] = "eu_ValidateEntry") => loc'[p] = loc[p]
    /\ (pc[p] = "eu_ValidateEntry" /\ pc'[p] # pc[p]) =>
            LET outcomes == {ValidateEntry(ctx, loc[p].schema[1].Fields,
                                           req[p].Attributes[1]) : ctx \in CtxFaults}
            IN  \/ /\ pc'[p] = "eu_UpdateEntry"
                   /\ NoErr \in outcomes
                   /\ loc'[p].entry[1].Attributes = req[p].Attributes[1]
                \/ /\ pc'[p] = "idle"
                   /\ resp'[p].status = "BadRequest"
                   /\ resp'[p].body \in (outcomes \ {NoErr})
                   /\ entries' = entries

C5_UpdateValidatesAgainstPinnedRow ==
    [][\A p \in Slots : C5_UpdateStep(p)]_vars

\* an update accepted under its pinned version although the latest version of
\* the key rejects the same attributes
C5_Witness ==
    \E p \in Slots :
        /\ pc[p] = "eu_UpdateEntry"
        /\ req[p].Attributes # NilPtr
        /\ GetLatestSchema(loc[p].entry[1].SchemaKey) # {}
        /\ \A s \in GetLatestSchema(loc[p].entry[1].SchemaKey) :
              /\ s.ID # loc[p].entry[1].SchemaID
              /\ ValidateEntry({}, s.Fields, req[p].Attributes[1]) # NoErr

\* C6: no step changes a stored schema row; a step that adds a row keeps every
\* other row and gives the new row the version: greatest stored version of its
\* key + 1.
C6_RowsImmutableVersionIsMaxPlusOne ==
    [][ /\ \A s \in schemas, t \in schemas' : t.ID = s.ID => t = s
        /\ \A t \in schemas' :
             (\A s \in schemas : s.ID # t.ID) =>
                /\ schemas \subseteq schemas'
                /\ t.Version = MaxVersion(t.Key) + 1 ]_vars

\* C7: a request whose attributes ValidateEntry rejects answers BadRequest and
\* writes nothing: the rejecting step leaves every collection as it is, and the
\* entries collection is only ever written by the insert/replace step that
\* follows an accepted validation (or an update without attributes).
C7_Step(p) ==
    /\ (pc[p] \in {"ec_ValidateEntry", "eu_ValidateEntry"} /\ pc'[p] = "idle") =>
            /\ resp'[p].status = "BadRequest"
            /\ UNCHANGED <<schemas, entries, terms, nextOid>>
    /\ (pc'[p] = "ec_CreateEntry" /\ pc[p] # pc'[p]) => pc[p] = "ec_ValidateEntry"
    /\ (pc'[p] = "eu_UpdateEntry" /\ pc[p] # pc'[p]) =>
            \/ pc[p] = "eu_ValidateEntry"
            \/ pc[p] = "idle" /\ req'[p].Attributes = NilPtr

C7_RejectedRequestWritesNothing ==
    [][ /\ \A p \in Slots : C7_Step(p)
        /\ entries' # entries =>
             \E p \in Slots :
                /\ pc[p] \in {"ec_CreateEntry", "eu_UpdateEntry"}
                /\ pc'[p] = "idle"
                /\ resp'[p].status \in {"Created", "Success"} ]_vars

\* a rejected update that supplied a new title and body, the entry still as created
C7_Witness ==
    \E p \in Slots :
        /\ resp[p].status = "BadRequest"
        /\ resp[p].req.op = "EntryHandler.Update"
        /\ resp[p].req.Title = "t2"
        /\ \E e \in entries :
              e.ID = resp[p].req.id /\ e.Title = "t1" /\ e.Body = "b1"

\* C8: a ValidateEntry outcome caused by a failed term lookup (not by an absent
\* term) is never reported with the client-error status used for validation
\* failures.
C8_LookupFailureIsNotBadRequest ==
    \A p \in Slots :
        resp[p].status = "BadRequest" => resp[p].body.msg # LookupFailedMsg

\* the field an error is addressed to: the key (and element index) its message names
ErrAddress(err) ==
    IF err.msg = ItemMsg THEN <<err.key, err.index>> ELSE <<err.key>>

FObjectAB == WithChildren(Field("a", TypeObject, TRUE), <<FChildB>>)

\* C9: against the schema whose only field is the required object 'a' with the
\* required string child 'b', a document without 'a' fails as a missing
\* required field addressed to a, and a document whose 'a' is an object without
\* 'b' fails as a missing required field addressed to a.b.
C9_NestedErrorCarriesFullPath ==
    \A n \in 1..Len(vErrs) :
        vFields = <<FObjectAB>> =>
            /\ "a" \notin DOMAIN vData =>
                    /\ vErrs[n].msg = MissingMsg
                    /\ ErrAddress(vErrs[n]) = <<"a">>
            /\ ("a" \in DOMAIN vData /\ vData.a.t = "map[string]any"
                    /\ "b" \notin DOMAIN vData.a.m) =>
                    /\ vErrs[n].msg = MissingMsg
                    /\ ErrAddress(vErrs[n]) = <<"a", "b">>

\* C10: when validation reaches an array field with an item_type whose value is
\* an array, the elements are validated against item_type in order; if some
\* element fails, the result is the error of the failing element of smallest
\* index i, addressed to key[i] (zero-based); if none fails, validation goes on
\* with the fields after it.
C10_Holds(result, j) ==
    LET field == vFields[j]
        arr == vData[field.Key].a
        bad == {i \in 1..Len(arr) :
                    validateFieldType(vCtx, field.ItemType[1], arr[i]) # NoErr}
    IN  IF bad = {}
        THEN result = ValidateEntry(vCtx, SubSeq(vFields, j + 1, Len(vFields)), vData)
        ELSE /\ result.msg = ItemMsg
             /\ ErrAddress(result) = <<field.Key, Min(bad) - 1>>
             /\ result.err = validateFieldType(vCtx, field.ItemType[1], arr[Min(bad)])

C10_ArrayErrorAddressesFirstFailingItem ==
    \A n \in 1..Len(vErrs), j \in 1..Len(vFields) :
        (/\ vFields[j].Type = TypeArray
         /\ vFields[j].ItemType # << >>
         /\ vFields[j].Key \in DOMAIN vData
         /\ vData[vFields[j].Key].t = "[]any"
         /\ ValidateEntry(vCtx, SubSeq(vFields, 1, j - 1), vData) = NoErr)
        => C10_Holds(vErrs[n], j)

\* ["x", 5] against item_type string: the error is addressed to a[1]
C10_Witness ==
    /\ "a" \in DOMAIN vData
    /\ vData.a = ArrayV(<<SX, N5>>)
    /\ vFields[1] = WithItemType(Field("a", TypeArray, TRUE), FItemString)
    /\ Len(vErrs) > 0
    /\ vErrs[1] = ErrorfItem("a", 1, Errorf("field '%s' must be a string", ""))

(***************************************************************************)
(* Properties of SchemaValidator.ValidateEntry                             *)
(***************************************************************************)
\* the outcome of the j-th declared field checked on its own
FieldError(ctx, fields, data, j) == validateFields(ctx, <<fields[j]>>, data)

ViolatedFields(ctx, fields, data) ==
    {j \in 1..Len(fields) : FieldError(ctx, fields, data, j) # NoErr}

\* the error of the first violated field in declaration order, NoErr if none is
FirstViolation(ctx, fields, data) ==
    IF ViolatedFields(ctx, fields, data) = {} THEN NoErr
    ELSE FieldError(ctx, fields, data, Min(ViolatedFields(ctx, fields, data)))

\* C11: ValidateEntry returns one error, the one of the first violated field in
\* declaration order, and inside an object the one of its first violated child;
\* the fields declared after it have no part in the outcome: any field may
\* follow it, and when the violation involves no term lookup the outcome is the
\* same whichever term lookups would fail.
C11_DepthFirst(j) ==
    LET field == vFields[j] IN
    (/\ field.Type = TypeObject
     /\ Len(field.Children) > 0
     /\ field.Key \in DOMAIN vData
     /\ vData[field.Key].t = "map[string]any")
    => FieldError(vCtx, vFields, vData, j)
            = FirstViolation(vCtx, field.Children, vData[field.Key].m)

C11_LaterFieldsIgnored(result) ==
    LET bad == ViolatedFields(vCtx, vFields, vData) IN
    bad # {} =>
        /\ \A g \in VFieldsA \cup VFieldsK :
              ValidateEntry(vCtx, SubSeq(vFields, 1, Min(bad)) \o <<g>>, vData) = result
        /\ (\A i \in 1..Min(bad) : vFields[i].Type # TypeTaxonomy) =>
              \A ctx \in VCtxs : ValidateEntry(ctx, vFields, vData) = result

C11_FailFast ==
    \A n \in 1..Len(vErrs) :
        /\ vErrs[n] = FirstViolation(vCtx, vFields, vData)
        /\ \A j \in 1..Len(vFields) : C11_DepthFirst(j)
        /\ C11_LaterFieldsIgnored(vErrs[n])

\* two declared fields are violated, and so are two children of an object
C11_Witness ==
    /\ Len(vErrs) > 0
    /\ Cardinality(ViolatedFields(vCtx, vFields, vData)) = 2
    /\ vErrs[1] = FieldError(vCtx, vFields, vData, 1)
    /\ vFields[1].Type = TypeObject
    /\ "a" \in DOMAIN vData
    /\ vData.a.t = "map[string]any"
    /\ Cardinality(ViolatedFields(vCtx, vFields[1].Children, vData.a.m)) = 2

HexDigits ==
    {"0", "1", "2", "3", "4", "5", "6", "7", "8", "9",
     "a", "b", "c", "d", "e", "f", "A", "B", "C", "D", "E", "F"}

\* s is written as a term identifier
IsTermID(s) == Len(s) = ObjectIDHexLen /\ \A i \in 1..Len(s) : s[i] \in HexDigits

\* the stored terms an identifier names (hexadecimal digits of either case)
TermsNamed(s) ==
    {t \in terms : \A i \in 1..Len(t.ID) :
        t.ID[i] = 16 * fromHexChar(s[2 * i - 1]) + fromHexChar(s[2 * i])}

InvalidIDMsg == "field '%s': invalid term ID format"
NotFoundMsg == "field '%s': term '%s' not found"
WrongTaxonomyMsg == "field '%s': term '%s' belongs to wrong taxonomy"

\* the outcome the term id s must have for a taxonomy field when lookups succeed
TermOutcome(field, s) ==
    IF ~IsTermID(s) THEN Errorf(InvalidIDMsg, field.Key)
    ELSE IF TermsNamed(s) = {} THEN ErrorfTerm(NotFoundMsg, field.Key, s)
    ELSE IF field.TaxonomyKey # ""
            /\ \E t \in TermsNamed(s) : t.TaxonomyKey # field.TaxonomyKey
    THEN ErrorfTerm(WrongTaxonomyMsg, field.Key, s)
    ELSE NoErr

\* C12: when validation reaches a single-valued taxonomy field whose value is a
\* string and term lookups succeed, the value is accepted iff it is written as
\* a term identifier, names a stored term, and the field's taxonomy_key is
\* empty or is the term's; otherwise the error is invalid format, not found, or
\* wrong taxonomy, in that order of precedence, three different errors.
C12_SingleTaxonomyReference ==
    \A n \in 1..Len(vErrs) :
        (/\ vCtx = {}
         /\ vFields[1].Type = TypeTaxonomy
         /\ ~vFields[1].AllowMultiple
         /\ vFields[1].Key \in DOMAIN vData
         /\ vData[vFields[1].Key].t = "string")
        => LET expected == TermOutcome(vFields[1], vData[vFields[1].Key].s) IN
           /\ expected # NoErr => vErrs[n] = expected
           /\ expected = NoErr => vErrs[n] = ValidateEntry(vCtx, Tail(vFields), vData)
           /\ Cardinality({InvalidIDMsg, NotFoundMsg, WrongTaxonomyMsg}) = 3

\* the term of another taxonomy is rejected as such
C12_Witness ==
    /\ Len(vErrs) > 0
    /\ vCtx = {}
    /\ "a" \in DOMAIN vData
    /\ vData.a = StringV(T2Hex)
    /\ vFields[1] = WithTaxonomy(Field("a", TypeTaxonomy, TRUE), "people", FALSE)
    /\ vErrs[1] = ErrorfTerm(WrongTaxonomyMsg, "a", T2Hex)

NotAnArrayMsg == "field '%s' must be an array of term IDs"
NotAStringMsg == "field '%s' must contain string term IDs"

\* the outcome of one element of a multi-valued taxonomy field when lookups succeed
ElementOutcome(field, v) ==
    IF v.t # "string" THEN Errorf(NotAStringMsg, field.Key)
    ELSE TermOutcome(field, v.s)

\* C13: when validation reaches a taxonomy field with allow_multiple, a value
\* that is no list is rejected with the must-be-an-array error; a list is
\* accepted iff every element is a string naming a stored term of the required
\* taxonomy; otherwise the error is that of the first offending element, names
\* its identifier, and is the same whichever lookups of later elements fail.
C13_Holds(result, field, value) ==
    IF value.t # "[]any" THEN result = Errorf(NotAnArrayMsg, field.Key)
    ELSE LET arr == value.a
             bad == {i \in 1..Len(arr) : ElementOutcome(field, arr[i]) # NoErr}
             looked == {OidOf(arr[i].s) : i \in {k \in 1..Len(arr) :
                            /\ bad # {} => k <= Min(bad)
                            /\ arr[k].t = "string"
                            /\ IsTermID(arr[k].s)}}
         IN  looked \cap vCtx = {} =>
                IF bad = {}
                THEN result = ValidateEntry(vCtx, Tail(vFields), vData)
                ELSE /\ result = ElementOutcome(field, arr[Min(bad)])
                     /\ result.msg \in {NotFoundMsg, WrongTaxonomyMsg}
                            => result.term = arr[Min(bad)].s

C13_MultiTaxonomyReference ==
    \A n \in 1..Len(vErrs) :
        (/\ vFields[1].Type = TypeTaxonomy
         /\ vFields[1].AllowMultiple
         /\ vFields[1].Key \in DOMAIN vData
         /\ vData[vFields[1].Key].t # "nil")
        => C13_Holds(vErrs[n], vFields[1], vData[vFields[1].Key])

\* [T3, T2] with T3 not stored: rejected for T3 although the lookup of T2 would fail
C13_Witness ==
    /\ Len(vErrs) > 0
    /\ vCtx = {OidOf(T2Hex)}
    /\ terms = SeedTerms
    /\ "a" \in DOMAIN vData
    /\ vData.a = ArrayV(<<StringV(T3Hex), StringV(T2Hex)>>)
    /\ vFields[1] = WithTaxonomy(Field("a", TypeTaxonomy, FALSE), "people", TRUE)
    /\ vErrs[1] = ErrorfTerm(NotFoundMsg, "a", T3Hex)

C16_ValidateEntryChangesNothing ==
    [][vFields' = vFields /\ vData' = vData /\ terms' = terms]_vars

\* an accepted document that lacks an optional field declared with a default
C16_Witness ==
    /\ Len(vErrs) > 0
    /\ vErrs[1] = NoErr
    /\ FDefaulted \in {vFields[i] : i \in 1..Len(vFields)}
    /\ "k" \notin DOMAIN vData
    /\ "a" \in DOMAIN vData

\* C20: when validation reaches a declared field whose key is absent from the
\* document: if the field is required the outcome is the missing-required
\* error naming its key; if not, the field is skipped (whatever its type,
\* children or default) and the outcome is that of the fields after it.
C20_AbsentField ==
    \A n \in 1..Len(vErrs), j \in 1..Len(vFields) :
        (/\ vFields[j].Key \notin DOMAIN vData
         /\ ValidateEntry(vCtx, SubSeq(vFields, 1, j - 1), vData) = NoErr)
        => IF vFields[j].Required
           THEN vErrs[n] = Errorf(MissingMsg, vFields[j].Key)
           ELSE vErrs[n] = ValidateEntry(vCtx, SubSeq(vFields, j + 1, Len(vFields)), vData)

\* an absent optional object whose child is required is skipped
C20_Witness ==
    /\ Len(vErrs) > 0
    /\ vErrs[1] = NoErr
    /\ vFields[1].Type = TypeObject
    /\ ~vFields[1].Required
    /\ Len(vFields[1].Children) > 0
    /\ vFields[1].Children[1].Required
    /\ "a" \notin DOMAIN vData

(***************************************************************************)
(* Properties of the search sync                                           *)
(***************************************************************************)
\* C17: the search sync never blocks or fails the primary write, whether or not
\* a search service is configured: no step ends the process, so the service
\* keeps serving; a step that writes the entries collection also writes that
\* request's Created/Success response; and a step of a sync goroutine changes
\* no collection, no handler and no response.
C17_GoroutineStep ==
    goroutines' # goroutines /\ goroutines' \subseteq goroutines

C17_SyncNeverFailsTheWrite ==
    [][ /\ \A p \in Slots : pc'[p] # "exited"
        /\ entries' # entries =>
              \E p \in Slots :
                 /\ pc[p] \in {"ec_CreateEntry", "eu_UpdateEntry", "ed_DeleteEntry"}
                 /\ pc'[p] = "idle"
                 /\ resp'[p].status \in {"Created", "Success"}
        /\ C17_GoroutineStep =>
              UNCHANGED <<schemas, entries, terms, comments, pc, req, loc, resp>> ]_vars

(***************************************************************************)
(* Properties of schema Delete and List                                    *)
(***************************************************************************)
\* the slot that takes the next request
C18_NextSlot(p) == pc[p] = "idle" /\ \A q \in Slots : q < p => pc[q] # "idle"

\* C18: the step by which schema Delete(key) succeeds leaves no row of key, so
\* that GetLatestSchema(key) finds nothing and no result of ListSchemas has a
\* row of key, and it leaves the rows of every other key and all entries as
\* they were; a Delete request for a key without rows answers NotFound (or the
\* failure of the lookup) and changes nothing, and never reaches the deletion.
C18_DeleteStep(p) ==
    /\ (pc[p] = "sd_DeleteSchemasByKey" /\ pc'[p] = "idle"
            /\ resp'[p].status = "Success") =>
          \A key \in {req[p].Key} :
          /\ \A s \in schemas' : s.Key # key
          /\ GetLatestSchema(key)' = {}
          /\ \A rows \in ListSchemas' : \A r \in rows : r.Key # key
          /\ {s \in schemas' : s.Key # key} = {s \in schemas : s.Key # key}
          /\ entries' = entries
    /\ (C18_NextSlot(p) /\ started' # started /\ pc'[p] = "idle"
            /\ resp'[p].req.op = "SchemaHandler.Delete"
            /\ GetLatestSchema(resp'[p].req.Key) = {}) =>
          /\ resp'[p].status \in {"NotFound", "InternalError"}
          /\ UNCHANGED <<schemas, entries>>
    /\ (pc'[p] = "sd_DeleteSchemasByKey" /\ pc[p] # pc'[p]) =>
          GetLatestSchema(req'[p].Key) # {}

C18_DeleteRemovesEveryVersion ==
    [][\A p \in Slots : C18_DeleteStep(p)]_vars

\* a successful Delete of a key that had two versions; the entry pinned to its
\* first version and the rows of the other key are still stored
C18_Witness ==
    /\ \E p \in Slots :
          /\ resp[p].status = "Success"
          /\ resp[p].req.op = "SchemaHandler.Delete"
    /\ nextOid > 7
    /\ \A s \in schemas : s.Key # "post"
    /\ SeedPageRows \subseteq schemas
    /\ \E e \in entries : e.SchemaKey = "post" /\ GetSchemaByID(e.SchemaID) = {}

\* C19: the rows SchemaHandler.List answers with are exactly one row for each
\* key that has a stored version, each of the greatest version of its key, and
\* each the row GetLatestSchema returns for its key.
C19_ListStep(p) ==
    (C18_NextSlot(p) /\ started' # started /\ pc'[p] = "idle"
        /\ resp'[p].req.op = "SchemaHandler.List" /\ resp'[p].status = "Success") =>
      LET rows == resp'[p].body IN
      /\ rows \subseteq schemas
      /\ \A s \in schemas : Cardinality({r \in rows : r.Key = s.Key}) = 1
      /\ \A r \in rows : r.Version = MaxVersion(r.Key)
      /\ \A r \in rows : GetLatestSchema(r.Key) = {r}

C19_ListIsLatestPerKey ==
    [][\A p \in Slots : C19_ListStep(p)]_vars

(***************************************************************************)
(* Properties of concurrent validation                                     *)
(***************************************************************************)
\* C15: however the steps and term lookups of concurrent ValidateEntry
\* invocations interleave, an invocation that has returned has returned what
\* ValidateEntry gives for its own context, fields and document, an invocation
\* in progress has found no violation in the fields it has passed, and the
\* term store is as it was.
C15_AsIfAlone(call) ==
    /\ call.st = "done" => call.err = ValidateEntry(call.ctx, call.fields, call.data)
    /\ call.st = "running" =>
          /\ call.i \in 1..(Len(call.fields) + 1)
          /\ ValidateEntry(call.ctx, SubSeq(call.fields, 1, call.i - 1), call.data) = NoErr

C15_ConcurrentCallsAreIndependent ==
    /\ \A c \in Callers : C15_AsIfAlone(calls[c])
    /\ terms = SeedTerms

\* two invocations on the same schema, one returned with a rejection while the
\* other, past its first field, goes on to accept its own document
C15_Witness ==
    \E c, d \in Callers :
        /\ calls[c].st = "done" /\ calls[c].err # NoErr
        /\ calls[d].st = "running" /\ calls[d].i = 2
        /\ calls[d].fields = calls[c].fields
        /\ calls[d].data # calls[c].data
        /\ ValidateEntry(calls[d].ctx, calls[d].fields, calls[d].data) = NoErr

(***************************************************************************)
(* Properties of SchemaValidator.validateFieldType                         *)
(***************************************************************************)
\* validation reaches the j-th declared field and finds its key in the document
Reached(j) ==
    /\ vFields[j].Key \in DOMAIN vData
    /\ ValidateEntry(vCtx, SubSeq(vFields, 1, j - 1), vData) = NoErr

\* the outcome of the fields declared after the j-th
AfterField(j) == ValidateEntry(vCtx, SubSeq(vFields, j + 1, Len(vFields)), vData)

NullMsg == "field '%s' cannot be null"

\* C21: when validation reaches a declared field whose value is null, the
\* outcome is the cannot-be-null error naming the field if the field is
\* required, and that of the fields after it if not; and the same field
\* declared required, or optional, rejects, or accepts, the null value
\* whatever its type, children, item type or taxonomy.
C21_NullValue ==
    \A n \in 1..Len(vErrs), j \in 1..Len(vFields) :
        (Reached(j) /\ vData[vFields[j].Key] = Nil) =>
            /\ vErrs[n] = IF vFields[j].Required
                          THEN Errorf(NullMsg, vFields[j].Key)
                          ELSE AfterField(j)
            /\ \A required \in BOOLEAN :
                 ValidateEntry(vCtx, <<[vFields[j] EXCEPT !.Required = required]>>, vData)
                    = IF required THEN Errorf(NullMsg, vFields[j].Key) ELSE NoErr

\* an optional taxonomy field holding null is accepted
C21_Witness ==
    /\ Len(vErrs) > 0
    /\ vErrs[1] = NoErr
    /\ vFields[1].Type = TypeTaxonomy
    /\ ~vFields[1].Required
    /\ "a" \in DOMAIN vData
    /\ vData.a = Nil

\* the dynamic kinds of numeric scalars: Go's integer and floating point types
NumericKinds ==
    {"int", "int8", "int16", "int32", "int64",
     "uint", "uint8", "uint16", "uint32", "uint64", "float32", "float64"}

KindOf(type) ==
    CASE type = TypeString -> {"string"}
      [] type = TypeNumber -> NumericKinds
      [] type = TypeBool -> {"bool"}

MismatchMsg(type) ==
    CASE type = TypeString -> "field '%s' must be a string"
      [] type = TypeNumber -> "field '%s' must be a number"
      [] type = TypeBool -> "field '%s' must be a boolean"

C23_ObjectField ==
    \A n \in 1..Len(vErrs), j \in 1..Len(vFields) :
        LET field == vFields[j]
            value == vData[field.Key]
        IN  (Reached(j) /\ field.Type = TypeObject /\ value # Nil) =>
              IF value.t # "map[string]any"
              THEN vErrs[n] = Errorf("field '%s' must be an object", field.Key)
              ELSE IF Len(field.Children) = 0
              THEN vErrs[n] = AfterField(j)
              ELSE /\ vErrs[n] = IF ValidateEntry(vCtx, field.Children, value.m) # NoErr
                                 THEN ValidateEntry(vCtx, field.Children, value.m)
                                 ELSE AfterField(j)
                   /\ \A c \in 1..Len(field.Children) :
                        (/\ field.Children[c].Required
                         /\ field.Children[c].Key \notin DOMAIN value.m)
                        => vErrs[n] # NoErr
                   /\ (/\ field.Children[1].Required
                       /\ field.Children[1].Key \notin DOMAIN value.m)
                      => vErrs[n] = Errorf(MissingMsg, field.Children[1].Key)

\* a mapping that lacks the required child of a nested object is rejected
C23_Witness ==
    /\ Len(vErrs) > 0
    /\ vFields[1].Type = TypeObject
    /\ Len(vFields[1].Children) > 0
    /\ vFields[1].Children[1].Type = TypeObject
    /\ "a" \in DOMAIN vData
    /\ vData.a.t = "map[string]any"
    /\ "b" \in DOMAIN vData.a.m
    /\ vData.a.m.b = MapV(EmptyMap)
    /\ vErrs[1] = Errorf(MissingMsg, "c")

\* the declarations that differ from f only in attributes its type gives no
\* meaning to
AlteredFields(f) ==
    {[f EXCEPT !.Children = children, !.ItemType = itemType,
               !.TaxonomyKey = taxonomyKey, !.AllowMultiple = allowMultiple] :
        children \in IF f.Type = TypeObject THEN {f.Children}
                     ELSE {f.Children, <<FChildB>>},
        itemType \in IF f.Type = TypeArray THEN {f.ItemType}
                     ELSE {f.ItemType, Ptr(FItemNumber)},
        taxonomyKey \in IF f.Type = TypeTaxonomy THEN {f.TaxonomyKey}
                        ELSE {f.TaxonomyKey, "places"},
        allowMultiple \in IF f.Type = TypeTaxonomy THEN {f.AllowMultiple}
                          ELSE BOOLEAN}

\* C24: the outcome of a validation is the same when a declared field is given
\* other children while its type is not object, another item type while its
\* type is not array, or another taxonomy key or allow_multiple while its type
\* is not taxonomy.
C24_OnlyMeaningfulAttributes ==
    \A n \in 1..Len(vErrs), j \in 1..Len(vFields) :
        \A g \in AlteredFields(vFields[j]) :
            ValidateEntry(vCtx, [vFields EXCEPT ![j] = g], vData) = vErrs[n]

\* an array field accepts two term ids of different taxonomies, and a field of
\* another type follows it
C24_Witness ==
    /\ Len(vErrs) > 0
    /\ vErrs[1] = NoErr
    /\ Len(vFields) = 2
    /\ vFields[1].Type = TypeArray
    /\ vFields[1].ItemType # NilPtr
    /\ "a" \in DOMAIN vData
    /\ vData.a = ArrayV(<<StringV(T1Hex), StringV(T2Hex)>>)
    /\ "k" \in DOMAIN vData

RecognisedTypes ==
    {TypeString, TypeNumber, TypeBool, TypeDate, TypeObject, TypeArray, TypeTaxonomy}

\* C30: a declared field whose type is none of the seven recognised ones,
\* required or not, is rejected only for an absent key or a null value when it
\* is required; when validation reaches it with any other value, the outcome is
\* that of the fields after it, and the field is accepted whichever term
\* lookups would fail.
C30_UnrecognisedType ==
    \A n \in 1..Len(vErrs), j \in 1..Len(vFields) :
        vFields[j].Type \notin RecognisedTypes =>
            /\ \A required \in BOOLEAN, ctx \in VCtxs :
                 ValidateEntry(ctx, <<[vFields[j] EXCEPT !.Required = required]>>, vData)
                    = IF ~required THEN NoErr
                      ELSE IF vFields[j].Key \notin DOMAIN vData
                      THEN Errorf(MissingMsg, vFields[j].Key)
                      ELSE IF vData[vFields[j].Key] = Nil
                      THEN Errorf(NullMsg, vFields[j].Key)
                      ELSE NoErr
            /\ (Reached(j) /\ vData[vFields[j].Key] # Nil) => vErrs[n] = AfterField(j)

\* a field of type "richtext" accepts an array of term ids, one of them not
\* stored and one whose lookup would fail
C30_Witness ==
    /\ Len(vErrs) > 0
    /\ vErrs[1] = NoErr
    /\ vFields[1].Type = "richtext"
    /\ "a" \in DOMAIN vData
    /\ vData.a = ArrayV(<<StringV(T3Hex), StringV(T2Hex)>>)
    /\ vCtx = {OidOf(T2Hex)}

(***************************************************************************)
(* Properties of undeclared document keys                                  *)
(***************************************************************************)
\* the document without the keys that the field list does not declare
OnlyDeclared(fields, data) ==
    [k \in {d \in DOMAIN data : \E n \in 1..Len(fields) : fields[n].Key = d} |-> data[k]]

\* the mapping m with one more key
WithExtraKey(m) == [k \in DOMAIN m \cup {"extra"} |-> IF k \in DOMAIN m THEN m[k] ELSE SX]

C29_Step(p) ==
    /\ (pc[p] \in {"ec_ValidateEntry", "eu_ValidateEntry"} /\ pc'[p] # pc[p]) =>
          LET fields == loc[p].schema[1].Fields
              outcomes == {ValidateEntry(ctx, fields, OnlyDeclared(fields, req[p].Attributes[1])) :
                              ctx \in CtxFaults}
          IN  IF pc'[p] = "idle"
              THEN resp'[p].status = "BadRequest" /\ resp'[p].body \in outcomes \ {NoErr}
              ELSE NoErr \in outcomes
    /\ (pc[p] = "ec_CreateEntry" /\ pc'[p] # pc[p] /\ resp'[p].status = "Created") =>
          \E e \in entries' \ entries : e.Attributes = req[p].Attributes[1]
    /\ (pc[p] = "eu_UpdateEntry" /\ pc'[p] # pc[p] /\ resp'[p].status = "Success"
            /\ req[p].Attributes # NilPtr) =>
          \E e \in entries' : e.ID = req[p].id /\ e.Attributes = req[p].Attributes[1]

C29_NestedKeys ==
    LET f == WithChildren(Field("a", TypeObject, TRUE), <<FChildB>>) IN
    \A m \in {EmptyMap, [b |-> SX], [b |-> N5]}, ctx \in CtxFaults :
        ValidateEntry(ctx, <<f, FTitle>>, [a |-> MapV(WithExtraKey(m)), title |-> SX])
            = ValidateEntry(ctx, <<f, FTitle>>, [a |-> MapV(m), title |-> SX])

\* C29: entry Create and Update accept or reject a document exactly as
\* ValidateEntry decides for the document without its undeclared keys, the
\* entry they store carries the attributes of the request with every key, and
\* an undeclared key inside a nested object does not change the outcome either.
\* (the nested case does not depend on the state: it is evaluated on the
\* steps that accept the first request)
C29_UndeclaredKeysAreKept ==
    [][ /\ \A p \in Slots : C29_Step(p)
        /\ started = 0 => C29_NestedKeys ]_vars

\* a stored entry carries an author although the schema row it was validated
\* against declares only the title
C29_Witness ==
    \E e \in entries, s \in schemas :
        /\ s.ID = e.SchemaID
        /\ s.Fields = <<FTitle>>
        /\ e.Attributes = DFull

(***************************************************************************)
(* Properties of entry ownership                                           *)
(***************************************************************************)
\* the positions of entry Update and entry Delete after the ownership check
C26_PastTheCheck ==
    {"eu_GetSchemaByID", "eu_ValidateEntry", "eu_UpdateEntry",
     "ed_DeleteComments", "ed_DeleteEntry"}

\* the session is the author's or an admin's
C26_MayChange(entry, session) ==
    entry.AuthorID = session.user_id \/ session.user_role = "admin"

C26_Step(p) ==
    /\ pc'[p] \in C26_PastTheCheck =>
          /\ loc'[p].entry # NilPtr
          /\ C26_MayChange(loc'[p].entry[1], req'[p].session)
    /\ (C18_NextSlot(p) /\ started' # started /\ pc'[p] = "idle"
            /\ resp'[p].req.op \in {"EntryHandler.Update", "EntryHandler.Delete"}
            /\ \E e \in GetEntryByID(resp'[p].req.id) :
                  ~C26_MayChange(e, resp'[p].req.session)) =>
          /\ resp'[p].status \in {"Forbidden", "InternalError"}
          /\ UNCHANGED <<entries, comments, indexed, goroutines>>

\* C26: an entry Update or Delete goes past its ownership check only for the
\* entry's author or an admin; the request of any other user is answered
\* Forbidden (or with the failure of the lookup) in a step that leaves the
\* entries, the comments, the search index and the started goroutines as they
\* are; and the entries, the comments and the index are only changed by a
\* request past the check or by a goroutine such a request started.
C26_OnlyAuthorOrAdminChanges ==
    [][ /\ \A p \in Slots : C26_Step(p)
        /\ (entries' # entries \/ comments' # comments \/ goroutines' # goroutines) =>
              \/ \E p \in Slots : pc[p] \in C26_PastTheCheck /\ pc'[p] # pc[p]
              \/ goroutines' # goroutines /\ goroutines' \subseteq goroutines
        /\ indexed' # indexed => goroutines' # goroutines /\ goroutines' \subseteq goroutines
      ]_vars

\* another user's Delete was refused, the entry, its comment and its index
\* document are still there, and an admin's Update went through
C26_Witness ==
    /\ \E p \in Slots :
          /\ resp[p].status = "Forbidden"
          /\ resp[p].req.op = "EntryHandler.Delete"
          /\ resp[p].req.session = [user_id |-> "u2", user_role |-> "user"]
    /\ \E q \in Slots :
          /\ resp[q].status = "Success"
          /\ resp[q].req.op = "EntryHandler.Update"
          /\ resp[q].req.session.user_role = "admin"
    /\ SeedComment \in comments
    /\ \E e \in entries : e.ID = SeedEntry.ID /\ e.Title = "t2"
    /\ \E d \in indexed : d.ID = SeedEntry.ID

(***************************************************************************)
(* Properties of SyncService.syncWithRetry                                 *)
(***************************************************************************)
C25_Bounded ==
    \A k \in DOMAIN retries :
        LET r == retries[k] IN
        /\ r.maxRetries = SyncRetries
        /\ r.calls <= r.maxRetries
        /\ r.st = "running" => r.i < r.maxRetries /\ r.err # "nil"
        /\ r.err = "nil" => r.st = "returned"
        /\ r.st = "gave up" => r.calls = r.maxRetries /\ r.err = "error"

C25_Stopped ==
    \A k \in DOMAIN retries :
        retries[k].st # "running" => retries'[k] = retries[k]

\* C25: syncWithRetry(entry, n), n = 3 from SyncEntryAsync, calls SyncEntry at
\* most n times; a successful call is the last one; it gives up only after n
\* failed calls; once it has returned it makes no further call; and every
\* started syncWithRetry eventually returns.
C25_RetryTerminates ==
    /\ []C25_Bounded
    /\ [][C25_Stopped]_vars
    /\ \A k \in 1..MaxAsync :
          (k \in DOMAIN retries) ~> (k \in DOMAIN retries /\ retries[k].st # "running")

\* one sync gave up after three failures, another succeeded at its second call
C25_Witness ==
    /\ Len(retries) = 2
    /\ retries[1].st = "gave up" /\ retries[1].calls = SyncRetries
    /\ retries[2].st = "returned" /\ retries[2].calls = 2
    /\ indexed = {entryToSearchDoc(retries[2].entry)}

(***************************************************************************)
(* Properties of comments of a deleted entry                               *)
(***************************************************************************)
\* C27: once an entry Delete has answered Success, no stored comment refers
\* to the entry it deleted, whatever comment Create requests ran beside it.
C27_NoCommentOfADeletedEntry ==
    \A p \in Slots :
        (resp[p].req.op = "EntryHandler.Delete" /\ resp[p].status = "Success") =>
            \A c \in comments : c.EntryID # resp[p].req.id

(***************************************************************************)
(* Properties of the OAuth state                                           *)
(***************************************************************************)
C28_Returned == {k \in DOMAIN validated : validated[k].st = "returned"}
C28_Found == {k \in DOMAIN validated : validated[k].oauthState # NilPtr}

\* C28, as stated: a returned call has left no row of its state in the store,
\* a call made after a returned call of the same state returns false, at most
\* one call of a state returns true, and a forged state returns false.
C28_FirstCallRemovesLaterCallsFalse ==
    /\ \A k \in C28_Returned : FindOAuthState(validated[k].state) = {}
    /\ \A k \in C28_Returned :
          validated[k].ok => \A j \in validated[k].done :
                                 validated[j].state # validated[k].state
    /\ \A j, k \in C28_Returned :
          (validated[j].ok /\ validated[k].ok /\ validated[j].state = validated[k].state)
              => j = k
    /\ \A k \in C28_Returned : validated[k].state = ForgedState => ~validated[k].ok

\* C28, amended: at most one call of a state finds its row, and the row of a
\* found state is no longer stored; a call returns true only if it found the
\* row of a generated state and returned before the row's expiry; so at most
\* one call of a state returns true and a forged state returns false.
C28_SingleUse ==
    /\ \A j, k \in C28_Found :
          validated[j].state = validated[k].state => j = k
    /\ \A k \in C28_Found :
          /\ FindOAuthState(validated[k].state) = {}
          /\ validated[k].oauthState[1].State = validated[k].state
          /\ validated[k].state \in GeneratedStates
    /\ \A k \in C28_Returned :
          validated[k].ok <=>
              /\ k \in C28_Found
              /\ validated[k].at < validated[k].oauthState[1].ExpiresAt
    /\ \A j, k \in C28_Returned :
          (validated[j].ok /\ validated[k].ok /\ validated[j].state = validated[k].state)
              => j = k
    /\ \A k \in C28_Returned : validated[k].state = ForgedState => ~validated[k].ok

\* two calls of one state have returned: the first true, the second, made
\* after it, false
C28_Witness ==
    /\ Len(validated) = 2
    /\ \A k \in 1..2 : validated[k].st = "returned" /\ validated[k].state = StateOf(FirstState)
    /\ validated[1].ok /\ ~validated[2].ok
    /\ 1 \in validated[2].done
    /\ FindOAuthState(StateOf(FirstState)) = {}

====
